---- MODULE Spec2Model ----
(***************************************************************************)
(* FloatChat MCP core (src/docs/LLD_MCP.md): the SQL validator and query   *)
(* executor of ArgoQueryTool, and the message dispatch of                  *)
(* MCPFloatChatServer.  Text is modelled as sequences of one-character     *)
(* strings so that upper(), `in` and f-string formatting are computed.     *)
(***************************************************************************)
EXTENDS Integers, Sequences, FiniteSets, TLC

VARIABLES
    v_pc,        \* validator harness: "off" | "input" | "done"
    v_query,     \* the query text handed to _validate_sql_query
    v_ret,       \* its return value
    v_warning,   \* the warning it logged: "none" | "dangerous" | "no_table"
    q_pc,        \* executor harness: "off" | "on"
    q_calls,     \* number of _execute_query calls made by the harness
    q_last,      \* outcome of the last _execute_query call
    table_rows,  \* rows the backend holds in each table
    db_log,      \* the query texts handed to the backend (cursor.execute)
    open_conns,  \* database connections currently open
    sessions,    \* MCPFloatChatServer.sessions: session_id -> session
    n_msgs,      \* messages handled so far (also the clock of timestamps)
    next_uuid,   \* number of session ids generated so far
    req,         \* the message handled last
    out,         \* the response handle_message returned for it
    exec,        \* what handling it did: tool.execute called, backend calls
    disconnected, \* session ids whose client has closed its connection
    r_pc,        \* RAG harness: "off" | "input" | "done"
    r_response,  \* the LLM response text (result["result"])
    r_answer,    \* what run_rag_query did with it
    app_messages,  \* App.messages: the chat messages {role, content}
    app_submits,  \* calls of ChatBox.submit so far
    d_messages,  \* Dashboard.messages: the chat messages {role, content}
    d_requests,  \* requests the Dashboard chat issued: text and state
    d_sends,  \* the texts the Dashboard ChatInput onSend was called with
    a_calls,  \* POST /chat requests received so far
    a_last,  \* what chat_query did with the last one
    a_reached,  \* the texts handed to run_rag_query (retrieval and LLM)
    t_inflight,  \* tools/call requests whose tool.execute has not returned yet
    t_done,  \* the calls that completed, in the order of completion
    t_issued,  \* messages the server has received so far
    k_websocket,  \* MCPFloatChatClient.websocket is set
    k_session_id,  \* MCPFloatChatClient.session_id ("none" is None)
    k_tools,  \* the keys of MCPFloatChatClient.tools
    k_counter,  \* MCPFloatChatClient.message_id_counter
    k_ops,  \* client operations started so far
    k_waiting,  \* client coroutines suspended at websocket.recv()
    k_wire,  \* messages sent and not yet handled by the server
    k_inbox,  \* responses sent and not yet received by the client
    k_returns,  \* what the client operations returned or raised, in order
    m_position,  \* MapView.position
    m_hasMarker,  \* MapView.hasMarker
    m_loading,  \* MapView.loading
    m_requests,  \* the postNearestFloat requests issued: position and state
    m_clicks,  \* clicks on the map and on the button so far
    z_location,  \* AdvancedVisualizations location prop (0: none)
    z_floats,  \* the location whose floats are in `floats` (0: the empty list)
    z_analysis,  \* the location whose analysis is in `analysis` (0: the empty text)
    z_loading,  \* AdvancedVisualizations.loading
    z_requests,  \* the requests issued: kind, location and state
    z_events   \* location changes and button clicks so far

v_vars == <<v_pc, v_query, v_ret, v_warning>>
q_vars == <<q_pc, q_calls, q_last>>
db_vars == <<table_rows, db_log, open_conns>>
s_vars == <<sessions, n_msgs, next_uuid, req, out, exec, disconnected>>
r_vars == <<r_pc, r_response, r_answer>>
c_vars == <<app_messages, app_submits, d_messages, d_requests, d_sends, a_calls, a_last, a_reached>>
t_vars == <<t_inflight, t_done, t_issued>>
k_vars == <<k_websocket, k_session_id, k_tools, k_counter, k_ops, k_waiting, k_wire, k_inbox, k_returns>>
m_vars == <<m_position, m_hasMarker, m_loading, m_requests, m_clicks>>
z_vars == <<z_location, z_floats, z_analysis, z_loading, z_requests, z_events>>
vars == <<v_pc, v_query, v_ret, v_warning, q_pc, q_calls, q_last,
          table_rows, db_log, open_conns,
          sessions, n_msgs, next_uuid, req, out, exec, disconnected,
          r_pc, r_response, r_answer,
          app_messages, app_submits, d_messages, d_requests, d_sends, a_calls, a_last, a_reached,
          t_inflight, t_done, t_issued,
          k_websocket, k_session_id, k_tools, k_counter, k_ops, k_waiting, k_wire, k_inbox, k_returns,
          m_position, m_hasMarker, m_loading, m_requests, m_clicks,
          z_location, z_floats, z_analysis, z_loading, z_requests, z_events>>

(***************************************************************************)
(* Bounds of the model.                                                    *)
(***************************************************************************)
MaxPad == 2
MaxCalls == 2
MaxMsgs == 3

(***************************************************************************)
(* Text: characters, str.upper(), substring test.                          *)
(***************************************************************************)
LowerChars ==
    <<"a","b","c","d","e","f","g","h","i","j","k","l","m","n","o","p","q","r","s","t","u","v","w","x","y","z">>
UpperChars ==
    <<"A","B","C","D","E","F","G","H","I","J","K","L","M","N","O","P","Q","R","S","T","U","V","W","X","Y","Z">>
DigitChars ==
    <<"0","1","2","3","4","5","6","7","8","9">>

Range(s) == { s[i] : i \in 1..Len(s) }
IndexOf(c, s) == CHOOSE i \in 1..Len(s) : s[i] = c

UpperChar(c) == IF c \in Range(LowerChars) THEN UpperChars[IndexOf(c, LowerChars)] ELSE c
LowerChar(c) == IF c \in Range(UpperChars) THEN LowerChars[IndexOf(c, UpperChars)] ELSE c

\* str.upper()
upper(s) == [i \in 1..Len(s) |-> UpperChar(s[i])]
\* str.lower()
lower(s) == [i \in 1..Len(s) |-> LowerChar(s[i])]

WhitespaceChars == {" ", "\t", "\n"}

\* Python's `sub in s` on strings
Contains(sub, s) ==
    \E i \in 1..(Len(s) - Len(sub) + 1) : SubSeq(s, i, i + Len(sub) - 1) = sub

(***************************************************************************)
(* ArgoQueryTool._validate_sql_query                                       *)
(***************************************************************************)
dangerous_keywords ==
    << <<"D","R","O","P">>, <<"D","E","L","E","T","E">>, <<"U","P","D","A","T","E">>,
       <<"I","N","S","E","R","T">>, <<"A","L","T","E","R">>, <<"C","R","E","A","T","E">>,
       <<"T","R","U","N","C","A","T","E">>, <<"G","R","A","N","T">>,
       <<"R","E","V","O","K","E">> >>

allowed_tables ==
    << <<"a","r","g","o","_","f","l","o","a","t","s">>,
       <<"a","r","g","o","_","p","r","o","f","i","l","e","s">>,
       <<"t","o","o","l","_","e","x","e","c","u","t","i","o","n","s">> >>

\* Mutant: the query is not upper-cased before the checks.
ValidateNoUpper(sql_query) ==
    LET sql_upper == sql_query IN
    IF \E k \in 1..Len(dangerous_keywords) : Contains(dangerous_keywords[k], sql_upper)
    THEN [ret |-> FALSE, warning |-> "dangerous"]
    ELSE IF \E t \in 1..Len(allowed_tables) : Contains(allowed_tables[t], sql_upper)
         THEN [ret |-> TRUE, warning |-> "none"]
         ELSE [ret |-> FALSE, warning |-> "no_table"]

\* Mutant: the fall-through after the table loop returns True.
ValidateDefaultAdmit(sql_query) ==
    LET sql_upper == upper(sql_query) IN
    IF \E k \in 1..Len(dangerous_keywords) : Contains(dangerous_keywords[k], sql_upper)
    THEN [ret |-> FALSE, warning |-> "dangerous"]
    ELSE IF \E t \in 1..Len(allowed_tables) : Contains(allowed_tables[t], sql_upper)
         THEN [ret |-> TRUE, warning |-> "none"]
         ELSE [ret |-> TRUE, warning |-> "no_table"]

\* The return value and the warning logged (lines 312 and 321).  The table
\* names are lower-case and are searched in the upper-cased text.
_validate_sql_query(sql_query) ==
    LET sql_upper == upper(sql_query) IN
    IF \E k \in 1..Len(dangerous_keywords) : Contains(dangerous_keywords[k], sql_upper)
    THEN [ret |-> FALSE, warning |-> "dangerous"]
    ELSE IF \E t \in 1..Len(allowed_tables) : Contains(allowed_tables[t], sql_upper)
         THEN [ret |-> TRUE, warning |-> "none"]
         ELSE [ret |-> FALSE, warning |-> "no_table"]

(***************************************************************************)
(* Identifiers and whole-token occurrences of a word in a text.            *)
(***************************************************************************)
IsIdentChar(c) ==
    c \in Range(LowerChars) \cup Range(UpperChars) \cup Range(DigitChars) \cup {"_"}

\* word k (upper-case) occurs in s at position i, in any letter casing
KeywordAt(k, s, i) ==
    /\ i + Len(k) - 1 <= Len(s)
    /\ upper(SubSeq(s, i, i + Len(k) - 1)) = k

\* ... and is not part of a longer identifier
WholeTokenAt(k, s, i) ==
    /\ KeywordAt(k, s, i)
    /\ (i = 1 \/ ~IsIdentChar(s[i - 1]))
    /\ (i + Len(k) > Len(s) \/ ~IsIdentChar(s[i + Len(k)]))

(***************************************************************************)
(* The database backend (psycopg2 / PostgreSQL) as _execute_query uses it: *)
(* cursor.execute(text) then fetchall() yields every row of the table, or  *)
(* the first n rows when the text holds a clause LIMIT n.                  *)
(***************************************************************************)
LIMIT == <<"L","I","M","I","T">>

RECURSIVE SkipWs(_, _)
SkipWs(s, j) ==
    IF j <= Len(s) /\ s[j] \in WhitespaceChars THEN SkipWs(s, j + 1) ELSE j

RECURSIVE DigitsFrom(_, _)
DigitsFrom(s, j) ==
    IF j <= Len(s) /\ s[j] \in Range(DigitChars)
    THEN <<s[j]>> \o DigitsFrom(s, j + 1)
    ELSE <<>>

\* int(digits)
RECURSIVE StrToInt(_)
StrToInt(d) ==
    IF d = <<>> THEN 0
    ELSE 10 * StrToInt(SubSeq(d, 1, Len(d) - 1)) + (IndexOf(d[Len(d)], DigitChars) - 1)

\* str(n) for n >= 0, as the f-string formats the limit
RECURSIVE IntToStr(_)
IntToStr(n) ==
    IF n < 10 THEN <<DigitChars[n + 1]>>
    ELSE IntToStr(n \div 10) \o <<DigitChars[(n % 10) + 1]>>

\* position i starts a clause LIMIT <n>
LimitClauseAt(s, i) ==
    /\ WholeTokenAt(LIMIT, s, i)
    /\ i + Len(LIMIT) <= Len(s)
    /\ s[i + Len(LIMIT)] \in WhitespaceChars
    /\ DigitsFrom(s, SkipWs(s, i + Len(LIMIT))) # <<>>

HasLimitClause(s) == \E i \in 1..Len(s) : LimitClauseAt(s, i)

LimitOf(s) ==
    LET i == CHOOSE j \in 1..Len(s) : LimitClauseAt(s, j)
    IN  StrToInt(DigitsFrom(s, SkipWs(s, i + Len(LIMIT))))

Min(a, b) == IF a <= b THEN a ELSE b

\* number of rows fetchall() returns for the text
BackendRows(text, rows) ==
    IF HasLimitClause(text) THEN Min(rows, LimitOf(text)) ELSE rows

(***************************************************************************)
(* ArgoQueryTool._execute_query(sql_query, params, limit).  backend_fails  *)
(* is the environment: cursor.execute raising.  The outcome carries the    *)
(* text sent, the number of rows returned, and the connections opened and  *)
(* closed by the call.                                                     *)
(***************************************************************************)
default_limit == 1000
max_results == 10000

\* Mutant: conn.close() after the return statement instead of in a finally
\* clause, so that a raising cursor.execute leaves the connection open.
ExecuteQueryClosesOnReturnOnly(sql_query, limit, rows, backend_fails) ==
    LET text == IF ~Contains(LIMIT, upper(sql_query))
                THEN sql_query \o <<" ">> \o LIMIT \o <<" ">> \o IntToStr(limit)
                ELSE sql_query
    IN  IF backend_fails
        THEN [rows |-> 0, kind |-> "raise", sent |-> text, opened |-> 1, closed |-> 0]
        ELSE [rows |-> BackendRows(text, rows), kind |-> "return", sent |-> text,
              opened |-> 1, closed |-> 1]

_execute_query(sql_query, limit, rows, backend_fails) ==
    LET text == IF ~Contains(LIMIT, upper(sql_query))
                THEN sql_query \o <<" ">> \o LIMIT \o <<" ">> \o IntToStr(limit)
                ELSE sql_query
    IN  IF backend_fails
        THEN [rows |-> 0, kind |-> "raise", sent |-> text, opened |-> 1, closed |-> 1]
        ELSE [rows |-> BackendRows(text, rows), kind |-> "return", sent |-> text,
              opened |-> 1, closed |-> 1]

(***************************************************************************)
(* Values carried by messages.  A parameter value is tagged with its JSON  *)
(* type; `parameters` maps every field name to a value or to Absent.       *)
(* Error texts are sequences of words.                                     *)
(***************************************************************************)
Fields == {"sql_query", "limit", "plot_type", "region", "data_query"}

Absent == [s |-> <<>>, t |-> "absent", n |-> 0]
StrVal(s) == [s |-> s, t |-> "string", n |-> 0]
IntVal(n) == [s |-> <<>>, t |-> "integer", n |-> n]

NoParameters == [f \in Fields |-> Absent]

\* `field in parameters`
Has(parameters, field) == parameters[field].t # "absent"

\* f"'{name}'"
Quote(name) == "'" \o name \o "'"

\* Python's `sub in s` on the words of a text
ContainsWords(sub, s) ==
    \E i \in 1..(Len(s) - Len(sub) + 1) : SubSeq(s, i, i + Len(sub) - 1) = sub

EmptyMap == [x \in {} |-> x]

\* a tool's result dictionary
Result(success, error, count, query) ==
    [success |-> success, error |-> error, count |-> count, query |-> query]

NoResult == Result(FALSE, <<>>, 0, <<>>)

\* what a call of tool.execute did: returned a result or raised, and the
\* backend calls it made
Return(result, db) ==
    [kind |-> "return", result |-> result, error |-> <<>>, db |-> db]
Raise(error) ==
    [kind |-> "raise", result |-> NoResult, error |-> error, db |-> <<>>]

(***************************************************************************)
(* MCPTool.validate_parameters and the tools' input schemas                *)
(***************************************************************************)
tool_names ==
    <<"query_argo_database", "get_float_metadata", "search_by_location",
      "generate_plot", "export_data", "get_data_statistics">>

\* the keys of MCPFloatChatServer.tools
tools == Range(tool_names)

\* get_input_schema(): the required fields, in order, and the type of each
\* property (of the fields the model carries)
input_schema(tool_name) ==
    CASE tool_name = "query_argo_database" ->
            [required |-> <<"sql_query">>,
             properties |-> [f \in {"sql_query", "limit"} |->
                                IF f = "limit" THEN "integer" ELSE "string"]]
      [] tool_name = "get_float_metadata" ->
            [required |-> <<>>,
             properties |-> [f \in {"region"} |-> "string"]]
      [] tool_name = "search_by_location" ->
            [required |-> <<>>,
             properties |-> [f \in {"region"} |-> "string"]]
      [] tool_name = "generate_plot" ->
            [required |-> <<"plot_type", "data_query">>,
             properties |-> [f \in {"plot_type", "data_query"} |-> "string"]]
      [] OTHER ->
            [required |-> <<>>, properties |-> EmptyMap]

\* the first required field that is missing, or "" when none is
MissingField(tool_name, parameters) ==
    LET required == input_schema(tool_name).required
        missing == { i \in 1..Len(required) : ~Has(parameters, required[i]) }
    IN  IF missing = {} THEN ""
        ELSE required[CHOOSE i \in missing : \A j \in missing : i <= j]

\* validate_parameters: raises ValueError for the first missing required
\* field; the types of the values are not looked at
validate_parameters(tool_name, parameters) ==
    LET field == MissingField(tool_name, parameters)
    IN  IF field = "" THEN [ok |-> TRUE, error |-> <<>>]
        ELSE [ok |-> FALSE,
              error |-> <<"Required", "parameter", Quote(field), "missing">>]

(***************************************************************************)
(* The tools' execute methods.  io_fails is the environment: the database  *)
(* or the metadata file failing during this call.                          *)
(***************************************************************************)
BackendError == <<"connection", "refused">>
FileError == <<"No", "such", "file:", "data/processed/metadata.csv">>
NoAttribute(type, attr) ==
    <<Quote(type), "object", "has", "no", "attribute", Quote(attr)>>

\* Mutant: after a backend failure the query is issued a second time.
QueryResultRetrying(sql_query, r) ==
    Return(IF r.kind = "return"
           THEN Result(TRUE, <<>>, r.rows, sql_query)
           ELSE Result(FALSE, BackendError, 0, sql_query),
           IF r.kind = "return"
           THEN <<[sql_query |-> sql_query, sent |-> r.sent]>>
           ELSE <<[sql_query |-> sql_query, sent |-> r.sent],
                  [sql_query |-> sql_query, sent |-> r.sent]>>)

\* the try block of ArgoQueryTool.execute, r being what _execute_query did:
\* rows become a success result, an exception a {"success": False} result
QueryResult(sql_query, r) ==
    Return(IF r.kind = "return"
           THEN Result(TRUE, <<>>, r.rows, sql_query)
           ELSE Result(FALSE, BackendError, 0, sql_query),
           <<[sql_query |-> sql_query, sent |-> r.sent]>>)

\* parameters.get("limit", 1000)
LimitOfCall(parameters) ==
    IF Has(parameters, "limit") THEN parameters["limit"].n ELSE default_limit

\* Mutant: execute runs the query without the security validation.
QueryExecuteUnvalidated(parameters, context, rows, io_fails) ==
    IF ~Has(parameters, "sql_query")
    THEN Raise(validate_parameters("query_argo_database", parameters).error)
    ELSE IF parameters["sql_query"].t # "string"
    THEN Raise(NoAttribute("int", "upper"))
    ELSE QueryResult(parameters["sql_query"].s,
                     _execute_query(parameters["sql_query"].s,
                                    LimitOfCall(parameters), rows, io_fails))

\* ArgoQueryTool.execute
ArgoQueryTool_execute(parameters, context, rows, io_fails) ==
    IF ~validate_parameters("query_argo_database", parameters).ok
    THEN Raise(validate_parameters("query_argo_database", parameters).error)
    ELSE IF parameters["sql_query"].t # "string"
    THEN Raise(NoAttribute("int", "upper"))
    ELSE IF ~_validate_sql_query(parameters["sql_query"].s).ret
    THEN Raise(<<"SQL", "query", "failed", "security", "validation">>)
    ELSE QueryResult(parameters["sql_query"].s,
                     _execute_query(parameters["sql_query"].s,
                                    LimitOfCall(parameters), rows, io_fails))

\* rows of data/processed/metadata.csv
metadata_rows == 2

\* ArgoMetadataTool.execute: every failure inside the try block becomes a
\* {"success": False} result
ArgoMetadataTool_execute(parameters, context, io_fails) ==
    LET check == validate_parameters("get_float_metadata", parameters)
    IN  IF ~check.ok THEN Raise(check.error)
        ELSE IF io_fails THEN Return(Result(FALSE, FileError, 0, <<>>), <<>>)
        ELSE IF Has(parameters, "region") /\ parameters["region"].t # "string"
             THEN Return(Result(FALSE, NoAttribute("int", "lower"), 0, <<>>), <<>>)
        ELSE Return(Result(TRUE, <<>>, metadata_rows, <<>>), <<>>)

\* ArgoGeographicTool.execute: no validate_parameters call
ArgoGeographicTool_execute(parameters, context, io_fails) ==
    IF io_fails THEN Return(Result(FALSE, FileError, 0, <<>>), <<>>)
    ELSE IF Has(parameters, "region") /\ parameters["region"].t # "string"
         THEN Return(Result(FALSE, NoAttribute("int", "lower"), 0, <<>>), <<>>)
    ELSE Return(Result(TRUE, <<>>, metadata_rows, <<>>), <<>>)

plot_types ==
    { <<"m","a","p">>, <<"p","r","o","f","i","l","e">>,
      <<"c","o","m","p","a","r","i","s","o","n">>,
      <<"t","i","m","e","_","s","e","r","i","e","s">> }
\* points _get_plot_data returns
plot_points == 2

\* ArgoVisualizationTool.execute: the data query is not run (mock data)
ArgoVisualizationTool_execute(parameters, context, io_fails) ==
    LET check == validate_parameters("generate_plot", parameters)
        plot_type == parameters["plot_type"]
    IN  IF ~check.ok THEN Raise(check.error)
        ELSE IF plot_type.t = "string" /\ plot_type.s \in plot_types
             THEN Return(Result(TRUE, <<>>, plot_points, <<>>), <<>>)
        ELSE Return(Result(FALSE, <<"Unknown", "plot", "type:">>, 0, <<>>), <<>>)

\* ArgoExportTool / ArgoStatisticsTool: registered, their classes are not
\* part of the document; a capability that returns a result or raises
OtherTool_execute(parameters, context, io_fails) ==
    IF io_fails THEN Raise(<<"tool", "failed">>)
    ELSE Return(Result(TRUE, <<>>, 0, <<>>), <<>>)

\* name attribute of ArgoExportTool / ArgoStatisticsTool: the name the tool
\* is registered under
OtherTool_name(key) == key

\* tool.execute(parameters, context) for the registered tool named
execute(tool_name, parameters, context, rows, io_fails) ==
    CASE tool_name = "query_argo_database" ->
            ArgoQueryTool_execute(parameters, context, rows, io_fails)
      [] tool_name = "get_float_metadata" ->
            ArgoMetadataTool_execute(parameters, context, io_fails)
      [] tool_name = "search_by_location" ->
            ArgoGeographicTool_execute(parameters, context, io_fails)
      [] tool_name = "generate_plot" ->
            ArgoVisualizationTool_execute(parameters, context, io_fails)
      [] OTHER ->
            OtherTool_execute(parameters, context, io_fails)

(***************************************************************************)
(* MCPFloatChatServer                                                      *)
(***************************************************************************)
\* an MCPMessage sent to the server; session_id "none" is an absent one
Message(type, id, session_id, tool_name, parameters) ==
    [parameters |-> parameters, tool_name |-> tool_name, type |-> type,
     id |-> id, session_id |-> session_id, timestamp |-> id]

\* an MCPMessage sent back
Response(type, id, error, session_id, tool_list, tool_name, result) ==
    [error |-> error, result |-> result, tools |-> tool_list,
     tool_name |-> tool_name, type |-> type, id |-> id,
     session_id |-> session_id, specs |-> <<>>]

NoExec == [db |-> <<>>, tool_name |-> "", context |-> EmptyMap, executed |-> FALSE,
           session_known |-> FALSE, raised |-> FALSE]

\* what handling a message does: the response, the sessions afterwards,
\* the record of the tool execution, and whether a session id was generated
Effect(response, new_sessions, execution, generated) ==
    [out |-> response, sessions |-> new_sessions, exec |-> execution,
     generated |-> generated]

_create_error_message(message_id, error) ==
    Response("error", message_id, error, "none", <<>>, "", NoResult)

\* uuid.uuid4(): an id not generated before
_generate_session_id(n) == "uuid-" \o ToString(n + 1)

_handle_initialize(message, ss, n_generated) ==
    LET generate == message.session_id = "none"
        session_id == IF generate THEN _generate_session_id(n_generated)
                      ELSE message.session_id
        session == [context |-> EmptyMap, created_at |-> message.timestamp,
                    tool_calls |-> <<>>]
        new_sessions == [x \in DOMAIN ss \cup {session_id} |->
                            IF x = session_id THEN session ELSE ss[x]]
    IN  Effect(Response("initialize", message.id, <<>>, session_id, tool_names,
                        "", NoResult),
               new_sessions, NoExec, generate)

\* Mutant: a tool class whose get_name differs from the key it is
\* registered under.
GetNameOtherThanKey(key) ==
    IF key = "search_by_location" THEN "search_location" ELSE key

\* get_name() of the tool registered under `key`
get_name(key) ==
    CASE key = "query_argo_database" -> "query_argo_database"
      [] key = "get_float_metadata" -> "get_float_metadata"
      [] key = "search_by_location" -> "search_by_location"
      [] key = "generate_plot" -> "generate_plot"
      [] OTHER -> OtherTool_name(key)

\* MCPTool.get_specification of the tool registered under `key` (the
\* description is a literal of the class, one per tool, carried as the
\* tool's own name)
get_specification(key) ==
    [name |-> get_name(key), description |-> get_name(key),
     inputSchema |-> input_schema(key)]

\* the tools_spec list built by the loop over self.tools.items()
tools_spec == [i \in 1..Len(tool_names) |-> get_specification(tool_names[i])]

\* Mutant: tools/list writes a session entry the way initialize does.
HandleToolsListWritesSession(message, ss) ==
    Effect([Response("tools/list", message.id, <<>>, "none", <<>>, "", NoResult)
               EXCEPT !.specs = tools_spec],
           [x \in DOMAIN ss \cup {message.session_id} |->
               [context |-> EmptyMap, created_at |-> message.timestamp,
                tool_calls |-> <<>>]],
           NoExec, FALSE)

_handle_tools_list(message, ss) ==
    Effect([Response("tools/list", message.id, <<>>, "none", <<>>, "", NoResult)
               EXCEPT !.specs = tools_spec],
           ss, NoExec, FALSE)

\* Mutant: the record of a call is appended to the history of every session.
ToolCallRecordedEverywhere(message, ss, context, r) ==
    IF r.kind = "return"
    THEN Effect(Response("tools/call", message.id, <<>>, "none", <<>>,
                         message.tool_name, r.result),
                [x \in DOMAIN ss |->
                    [ss[x] EXCEPT !.tool_calls =
                        Append(@, [tool_name |-> message.tool_name,
                                   parameters |-> message.parameters,
                                   result |-> r.result,
                                   timestamp |-> message.timestamp])]],
                [db |-> r.db, tool_name |-> message.tool_name, context |-> context,
                 executed |-> TRUE,
                 session_known |-> message.session_id \in DOMAIN ss,
                 raised |-> r.kind = "raise"],
                FALSE)
    ELSE Effect(_create_error_message(message.id,
                    <<"Tool", "execution", "error:">> \o r.error),
                ss,
                [db |-> r.db, tool_name |-> message.tool_name, context |-> context,
                 executed |-> TRUE,
                 session_known |-> message.session_id \in DOMAIN ss,
                 raised |-> r.kind = "raise"],
                FALSE)

\* the try block of _handle_tool_call, r being what tool.execute did when
\* called with `context`: a result is appended to the history of a known
\* session and returned, an exception is reported
ToolCallEffect(message, ss, context, r) ==
    IF r.kind = "return"
    THEN Effect(Response("tools/call", message.id, <<>>, "none", <<>>,
                         message.tool_name, r.result),
                IF message.session_id \in DOMAIN ss
                THEN [ss EXCEPT ![message.session_id].tool_calls =
                        Append(@, [tool_name |-> message.tool_name,
                                   parameters |-> message.parameters,
                                   result |-> r.result,
                                   timestamp |-> message.timestamp])]
                ELSE ss,
                [db |-> r.db, tool_name |-> message.tool_name, context |-> context,
                 executed |-> TRUE,
                 session_known |-> message.session_id \in DOMAIN ss,
                 raised |-> r.kind = "raise"],
                FALSE)
    ELSE Effect(_create_error_message(message.id,
                    <<"Tool", "execution", "error:">> \o r.error),
                ss,
                [db |-> r.db, tool_name |-> message.tool_name, context |-> context,
                 executed |-> TRUE,
                 session_known |-> message.session_id \in DOMAIN ss,
                 raised |-> r.kind = "raise"],
                FALSE)

\* self.sessions.get(session_id, {}).get("context", {})
ContextOf(ss, session_id) ==
    IF session_id \in DOMAIN ss THEN ss[session_id].context ELSE EmptyMap

\* Mutant: no registry lookup before self.tools[tool_name]; the KeyError
\* is reported by handle_message as str(e).
HandleToolCallNoLookup(message, ss, rows, io_fails) ==
    IF message.tool_name \notin tools
    THEN Effect(_create_error_message(message.id, <<Quote(message.tool_name)>>),
                ss, NoExec, FALSE)
    ELSE ToolCallEffect(message, ss, ContextOf(ss, message.session_id),
             execute(message.tool_name, message.parameters,
                     ContextOf(ss, message.session_id), rows, io_fails))

_handle_tool_call(message, ss, rows, io_fails) ==
    IF message.tool_name \notin tools
    THEN Effect(_create_error_message(message.id,
                    <<"Tool", Quote(message.tool_name), "not", "found">>),
                ss, NoExec, FALSE)
    ELSE ToolCallEffect(message, ss, ContextOf(ss, message.session_id),
             execute(message.tool_name, message.parameters,
                     ContextOf(ss, message.session_id), rows, io_fails))

\* handle_message: the dispatch on the message type.  No method
\* _handle_context_update is defined, so that branch raises AttributeError,
\* which the except clause reports as an error message.
handle_message(message, ss, n_generated, rows, io_fails) ==
    CASE message.type = "initialize" ->
            _handle_initialize(message, ss, n_generated)
      [] message.type = "tools/list" ->
            _handle_tools_list(message, ss)
      [] message.type = "tools/call" ->
            _handle_tool_call(message, ss, rows, io_fails)
      [] message.type = "context/update" ->
            Effect(_create_error_message(message.id,
                       NoAttribute("MCPFloatChatServer", "_handle_context_update")),
                   ss, NoExec, FALSE)
      [] OTHER ->
            Effect(_create_error_message(message.id,
                       <<"Unknown", "message", "type">>),
                   ss, NoExec, FALSE)

(***************************************************************************)
(* The server's behaviours: messages arrive one at a time, each handled    *)
(* whole by handle_message.                                                *)
(***************************************************************************)
\* session ids clients put in initialize ("none": let the server generate)
InitSessionIds == {"none", "s1"}
\* session ids clients put in other messages; "s2" is never initialized
CallSessionIds == {"s1", "s2"}

SampleQuery ==
    <<"S","E","L","E","C","T"," ","*"," ","F","R","O","M"," ","a","r","g","o","_","f","l","o","a","t","s"," ","L","I","M","I","T"," ","1","0">>
SampleDrop ==
    <<"D","R","O","P"," ","T","A","B","L","E"," ","a","r","g","o","_","f","l","o","a","t","s">>

\* the parameters clients send with a tools/call, by tool
CallParameters(tool_name) ==
    CASE tool_name = "query_argo_database" ->
            { NoParameters,
              [NoParameters EXCEPT !["sql_query"] = StrVal(SampleQuery)],
              [NoParameters EXCEPT !["sql_query"] = StrVal(SampleDrop)],
              [NoParameters EXCEPT !["sql_query"] = IntVal(123)] }
      [] tool_name = "search_by_location" ->
            { NoParameters,
              [NoParameters EXCEPT !["region"] = IntVal(5)] }
      [] tool_name = "generate_plot" ->
            { NoParameters,
              [NoParameters EXCEPT !["plot_type"] = StrVal(<<"m","a","p">>),
                                   !["data_query"] = StrVal(SampleQuery)] }
      [] OTHER -> { NoParameters }

CallToolNames == tools \cup {"nonexistent_tool"}

NoMessage == Message("none", 0, "none", "", NoParameters)
NoResponse == Response("none", 0, <<>>, "none", <<>>, "", NoResult)

(***************************************************************************)
(* Executor harness: direct calls of _execute_query with queries that name *)
(* an allowed table and hold no denylisted keyword.                        *)
(***************************************************************************)
ExecQueries ==
    { <<"S","E","L","E","C","T"," ","*"," ","F","R","O","M"," ","a","r","g","o","_","f","l","o","a","t","s">>,
      <<"S","E","L","E","C","T"," ","*"," ","F","R","O","M"," ","a","r","g","o","_","f","l","o","a","t","s"," ","L","I","M","I","T"," ","1","0">>,
      <<"S","E","L","E","C","T"," ","*"," ","F","R","O","M"," ","a","r","g","o","_","f","l","o","a","t","s"," ","L","I","M","I","T"," ","2","0","0","0","0">>,
      <<"s","e","l","e","c","t"," ","*"," ","f","r","o","m"," ","a","r","g","o","_","p","r","o","f","i","l","e","s"," ","l","i","m","i","t"," ","2","0","0","0","0">>,
      <<"S","E","L","E","C","T"," ","i","d"," ","A","S"," ","l","i","m","i","t","_","i","d"," ","F","R","O","M"," ","a","r","g","o","_","p","r","o","f","i","l","e","s">>,
      <<"s","e","l","e","c","t"," ","*"," ","f","r","o","m"," ","a","r","g","o","_","f","l","o","a","t","s"," ","w","h","e","r","e"," ","r","e","g","i","o","n"," ","="," ","'","L","i","m","i","t","'">> }

Limits == {10, default_limit, max_results, 20000}
TableSizes == {3, 15000}
\* rows of each table behind the server
ServerTableRows == 15000

\* Optional[str]
None == [found |-> FALSE, text |-> <<>>]
Some(s) == [found |-> TRUE, text |-> s]

\* what a call of run_rag_query did: the text returned, the query extracted,
\* whether it was logged, and the backend calls made
Answer(kind, text, sql, logged, db) ==
    [kind |-> kind, text |-> text, sql |-> sql, logged |-> logged, db |-> db]

NoAnswer == Answer("none", <<>>, None, FALSE, <<>>)

\* what chat_query did with a request: refused by the input validation, or
\* run_rag_query called with `text`
ChatOutcome(input, kind, text, error) ==
    [text |-> text, kind |-> kind, error |-> error, input |-> input]
NoChatOutcome == ChatOutcome(<<>>, "none", <<>>, "")

NoOutcome == [rows |-> 0, kind |-> "none", sent |-> <<>>, opened |-> 0, closed |-> 0]

InitQuery ==
    /\ q_pc = "on"
    /\ q_calls = 0
    /\ q_last = NoOutcome
    /\ table_rows \in TableSizes
    /\ db_log = <<>>
    /\ open_conns = 0
    /\ v_pc = "off"
    /\ v_query = <<>>
    /\ v_ret = FALSE
    /\ v_warning = "none"
    /\ sessions = EmptyMap
    /\ n_msgs = 0
    /\ next_uuid = 0
    /\ req = NoMessage
    /\ out = NoResponse
    /\ exec = NoExec
    /\ disconnected = {}
    /\ r_pc = "off"
    /\ r_response = <<>>
    /\ r_answer = NoAnswer
    /\ app_messages = <<>>
    /\ app_submits = 0
    /\ d_messages = <<>>
    /\ d_requests = <<>>
    /\ d_sends = <<>>
    /\ a_calls = 0
    /\ a_last = NoChatOutcome
    /\ a_reached = <<>>
    /\ t_inflight = {}
    /\ t_done = <<>>
    /\ t_issued = 0
    /\ k_websocket = FALSE
    /\ k_session_id = "none"
    /\ k_tools = {}
    /\ k_counter = 0
    /\ k_ops = 0
    /\ k_waiting = {}
    /\ k_wire = <<>>
    /\ k_inbox = <<>>
    /\ k_returns = <<>>
    /\ m_position = 0
    /\ m_hasMarker = FALSE
    /\ m_loading = FALSE
    /\ m_requests = <<>>
    /\ m_clicks = 0
    /\ z_location = 0
    /\ z_floats = 0
    /\ z_analysis = 0
    /\ z_loading = FALSE
    /\ z_requests = <<>>
    /\ z_events = 0

(***************************************************************************)
(* Query texts fed to the validator: lead, target, trailer, joined by runs *)
(* of whitespace, in three letter casings.                                 *)
(***************************************************************************)
Leads ==
    { <<"s","e","l","e","c","t"," ","*"," ","f","r","o","m">>,
      <<"s","e","l","e","c","t"," ","c","r","e","a","t","e","d","_","a","t"," ","f","r","o","m">>,
      <<"s","e","l","e","c","t"," ","u","p","d","a","t","e","d","_","a","t"," ","f","r","o","m">> }
    \cup { lower(dangerous_keywords[k]) : k \in 1..Len(dangerous_keywords) }

Targets ==
    { allowed_tables[t] : t \in 1..Len(allowed_tables) }
    \cup { <<"u","s","e","r","s">>, <<"t","a","b","l","e">> }

Trailers ==
    { <<>>,
      <<"l","i","m","i","t"," ","1","0">>,
      <<"w","h","e","r","e"," ","i","d"," ","="," ","1">>,
      <<"w","h","e","r","e"," ","n","a","m","e"," ","="," ","'","d","r","o","p","'">> }

Casings == {"lower", "upper", "mixed"}

Pad(ws, n) == [i \in 1..n |-> ws]

MixedCase(s) == [i \in 1..Len(s) |-> IF i % 2 = 1 THEN UpperChar(s[i]) ELSE s[i]]

ApplyCasing(casing, s) ==
    CASE casing = "lower" -> s
      [] casing = "upper" -> upper(s)
      [] casing = "mixed" -> MixedCase(s)

BuildQuery(lead, target, trailer, ws, n, casing) ==
    ApplyCasing(casing,
        lead \o Pad(ws, n) \o target
             \o (IF trailer = <<>> THEN <<>> ELSE Pad(ws, n) \o trailer))

\* The two queries of TestArgoQueryTool.test_sql_validation.
TestValidQuery ==
    <<"S","E","L","E","C","T"," ","*"," ","F","R","O","M"," ","a","r","g","o","_","f","l","o","a","t","s"," ","L","I","M","I","T"," ","1","0">>
TestInvalidQuery ==
    <<"D","R","O","P"," ","T","A","B","L","E"," ","a","r","g","o","_","f","l","o","a","t","s">>

Queries ==
    {TestValidQuery, TestInvalidQuery} \cup
    { BuildQuery(lead, target, trailer, ws, n, casing) :
        lead \in Leads, target \in Targets, trailer \in Trailers,
        ws \in WhitespaceChars, n \in 1..MaxPad, casing \in Casings }

(***************************************************************************)
(* The RAG query path (src/unnamed/part_008): run_rag_query and            *)
(* extract_sql_query.  The pattern is: three backquotes and sql, optional  *)
(* whitespace, a lazy group of any characters, optional whitespace, three  *)
(* backquotes; searched with re.DOTALL | re.IGNORECASE.                    *)
(***************************************************************************)
\* the backquote character (a TLA+ string cannot hold one)
Backquote == "backquote"
Fence == <<Backquote, Backquote, Backquote>>
SqlFence == Fence \o <<"S","Q","L">>

\* the opening fence matches at i, its letters in any casing (re.IGNORECASE)
OpensAt(text, i) ==
    /\ i + Len(SqlFence) - 1 <= Len(text)
    /\ upper(SubSeq(text, i, i + Len(SqlFence) - 1)) = SqlFence

\* the closing fence matches at j
ClosesAt(text, j) ==
    /\ j + Len(Fence) - 1 <= Len(text)
    /\ SubSeq(text, j, j + Len(Fence) - 1) = Fence

\* where the group starts for an opening at i: after the greedy whitespace
GroupStart(text, i) == SkipWs(text, i + Len(SqlFence))

\* the positions at which the whole pattern matches
MatchStarts(text) ==
    { i \in 1..Len(text) :
        /\ OpensAt(text, i)
        /\ \E j \in GroupStart(text, i)..Len(text) : ClosesAt(text, j) }

\* start of the whitespace run that ends right before j, not before a
RECURSIVE WsRunStart(_, _, _)
WsRunStart(text, a, j) ==
    IF j > a /\ text[j - 1] \in WhitespaceChars THEN WsRunStart(text, a, j - 1) ELSE j

\* str.strip()
RECURSIVE StripRight(_)
StripRight(s) ==
    IF s # <<>> /\ s[Len(s)] \in WhitespaceChars
    THEN StripRight(SubSeq(s, 1, Len(s) - 1)) ELSE s
strip(s) == StripRight(SubSeq(s, SkipWs(s, 1), Len(s)))

\* match.group(1) of re.search: the leftmost match, the lazy group ending
\* before the first closing fence and the whitespace in front of it
Group1(text) ==
    LET i == CHOOSE x \in MatchStarts(text) : \A y \in MatchStarts(text) : x <= y
        a == GroupStart(text, i)
        closes == { j \in a..Len(text) : ClosesAt(text, j) }
        j == CHOOSE x \in closes : \A y \in closes : x <= y
    IN  SubSeq(text, a, WsRunStart(text, a, j) - 1)

\* Mutant: the pattern lacks the closing fence.
ExtractNoClosingFence(response_text) ==
    LET opens == { i \in 1..Len(response_text) : OpensAt(response_text, i) } IN
    IF opens = {} THEN None
    ELSE LET i == CHOOSE x \in opens : \A y \in opens : x <= y
         IN  Some(strip(SubSeq(response_text, GroupStart(response_text, i),
                               Len(response_text))))

extract_sql_query(response_text) ==
    IF MatchStarts(response_text) # {}
    THEN Some(strip(Group1(response_text)))
    ELSE None

\* Mutant: the extracted query is validated and a rejected one raises, as
\* ArgoQueryTool.execute does.
RunRagQueryRaisesOnRejected(result) ==
    LET sql_query == extract_sql_query(result) IN
    IF sql_query.found /\ ~_validate_sql_query(sql_query.text).ret
    THEN Answer("raise", <<>>, sql_query, FALSE, <<>>)
    ELSE Answer("return", result, sql_query,
                sql_query.found /\ sql_query.text # <<>>, <<>>)

\* run_rag_query, `result` being result["result"] of chain.invoke: the
\* query is extracted and logged, never validated or executed, and the
\* response text is returned
run_rag_query(result) ==
    LET sql_query == extract_sql_query(result) IN
    Answer("return", result, sql_query,
           sql_query.found /\ sql_query.text # <<>>, <<>>)

(***************************************************************************)
(* LLM responses fed to run_rag_query: prose, an opening fence, a body and *)
(* a closing fence, each present or not.                                   *)
(***************************************************************************)
Proses == { <<>>, <<"T","h","e","r","e"," ","a","r","e"," ","3",".">> }
Openings ==
    { <<>>, Fence, SqlFence, lower(SqlFence),
      Fence \o <<"S","q","l">>,
      Fence \o <<"p","y","t","h","o","n">> }
Separators == { <<>>, <<" ">>, <<"\n">> }
Bodies ==
    { <<>>,
      <<"S","E","L","E","C","T"," ","1">>,
      TestValidQuery,
      TestInvalidQuery }
Closings == { <<>>, Fence }

Responses ==
    { prose \o opening \o sep \o body \o sep \o closing :
        prose \in Proses, opening \in Openings, sep \in Separators,
        body \in Bodies, closing \in Closings }

(***************************************************************************)
(* Validator harness: one call of _validate_sql_query per behaviour.       *)
(***************************************************************************)
InitValidator ==
    /\ v_pc = "input"
    /\ v_query \in Queries
    /\ v_ret = FALSE
    /\ v_warning = "none"
    /\ q_pc = "off"
    /\ q_calls = 0
    /\ q_last = NoOutcome
    /\ table_rows = 0
    /\ db_log = <<>>
    /\ open_conns = 0
    /\ sessions = EmptyMap
    /\ n_msgs = 0
    /\ next_uuid = 0
    /\ req = NoMessage
    /\ out = NoResponse
    /\ exec = NoExec
    /\ disconnected = {}
    /\ r_pc = "off"
    /\ r_response = <<>>
    /\ r_answer = NoAnswer
    /\ app_messages = <<>>
    /\ app_submits = 0
    /\ d_messages = <<>>
    /\ d_requests = <<>>
    /\ d_sends = <<>>
    /\ a_calls = 0
    /\ a_last = NoChatOutcome
    /\ a_reached = <<>>
    /\ t_inflight = {}
    /\ t_done = <<>>
    /\ t_issued = 0
    /\ k_websocket = FALSE
    /\ k_session_id = "none"
    /\ k_tools = {}
    /\ k_counter = 0
    /\ k_ops = 0
    /\ k_waiting = {}
    /\ k_wire = <<>>
    /\ k_inbox = <<>>
    /\ k_returns = <<>>
    /\ m_position = 0
    /\ m_hasMarker = FALSE
    /\ m_loading = FALSE
    /\ m_requests = <<>>
    /\ m_clicks = 0
    /\ z_location = 0
    /\ z_floats = 0
    /\ z_analysis = 0
    /\ z_loading = FALSE
    /\ z_requests = <<>>
    /\ z_events = 0

Validate ==
    /\ v_pc = "input"
    /\ LET r == _validate_sql_query(v_query) IN
         /\ v_ret' = r.ret
         /\ v_warning' = r.warning
    /\ v_pc' = "done"
    /\ UNCHANGED <<v_query, q_vars, db_vars, s_vars, r_vars, c_vars, t_vars, k_vars, m_vars, z_vars>>

NextValidator == Validate

SpecValidator == InitValidator /\ [][NextValidator]_vars

(***************************************************************************)
(* Executor harness: a call of _execute_query, whole.                      *)
(***************************************************************************)
ExecuteQueryCall(sql_query, limit, backend_fails) ==
    /\ q_pc = "on"
    /\ q_calls < MaxCalls
    /\ LET r == _execute_query(sql_query, limit, table_rows, backend_fails) IN
         /\ q_last' = r
         /\ db_log' = Append(db_log, [sql_query |-> sql_query, sent |-> r.sent])
         /\ open_conns' = open_conns + r.opened - r.closed
    /\ q_calls' = q_calls + 1
    /\ UNCHANGED <<q_pc, table_rows, v_vars, s_vars, r_vars, c_vars, t_vars, k_vars, m_vars, z_vars>>

NextQuery ==
    \E sql_query \in ExecQueries, limit \in Limits, backend_fails \in BOOLEAN :
        ExecuteQueryCall(sql_query, limit, backend_fails)

SpecQuery == InitQuery /\ [][NextQuery]_vars

(***************************************************************************)
(* RAG harness: one call of run_rag_query per behaviour.                   *)
(***************************************************************************)
InitRag ==
    /\ r_pc = "input"
    /\ r_response \in Responses
    /\ r_answer = NoAnswer
    /\ v_pc = "off"
    /\ v_query = <<>>
    /\ v_ret = FALSE
    /\ v_warning = "none"
    /\ q_pc = "off"
    /\ q_calls = 0
    /\ q_last = NoOutcome
    /\ table_rows = ServerTableRows
    /\ db_log = <<>>
    /\ open_conns = 0
    /\ sessions = EmptyMap
    /\ n_msgs = 0
    /\ next_uuid = 0
    /\ req = NoMessage
    /\ out = NoResponse
    /\ exec = NoExec
    /\ disconnected = {}
    /\ app_messages = <<>>
    /\ app_submits = 0
    /\ d_messages = <<>>
    /\ d_requests = <<>>
    /\ d_sends = <<>>
    /\ a_calls = 0
    /\ a_last = NoChatOutcome
    /\ a_reached = <<>>
    /\ t_inflight = {}
    /\ t_done = <<>>
    /\ t_issued = 0
    /\ k_websocket = FALSE
    /\ k_session_id = "none"
    /\ k_tools = {}
    /\ k_counter = 0
    /\ k_ops = 0
    /\ k_waiting = {}
    /\ k_wire = <<>>
    /\ k_inbox = <<>>
    /\ k_returns = <<>>
    /\ m_position = 0
    /\ m_hasMarker = FALSE
    /\ m_loading = FALSE
    /\ m_requests = <<>>
    /\ m_clicks = 0
    /\ z_location = 0
    /\ z_floats = 0
    /\ z_analysis = 0
    /\ z_loading = FALSE
    /\ z_requests = <<>>
    /\ z_events = 0

RunRagQuery ==
    /\ r_pc = "input"
    /\ r_answer' = run_rag_query(r_response)
    /\ db_log' = db_log \o r_answer'.db
    /\ r_pc' = "done"
    /\ UNCHANGED <<r_response, table_rows, open_conns, v_vars, q_vars, s_vars, c_vars, t_vars, k_vars, m_vars, z_vars>>

NextRag == RunRagQuery

SpecRag == InitRag /\ [][NextRag]_vars

(***************************************************************************)
(* Server behaviours (continued): initial state and steps.                 *)
(***************************************************************************)
\* the server state after handling `message` with effect e
Apply(message, e) ==
    /\ sessions' = e.sessions
    /\ out' = e.out
    /\ exec' = e.exec
    /\ next_uuid' = IF e.generated THEN next_uuid + 1 ELSE next_uuid
    /\ db_log' = db_log \o e.exec.db
    /\ req' = message
    /\ n_msgs' = n_msgs + 1
    /\ UNCHANGED <<table_rows, open_conns, v_vars, q_vars, disconnected, r_vars, c_vars, t_vars, k_vars, m_vars, z_vars>>

\* the server receives `message` and handles it
Handle(message, io_fails) ==
    /\ n_msgs < MaxMsgs
    /\ Apply(message,
             handle_message(message, sessions, next_uuid, table_rows, io_fails))

Initialize ==
    \E session_id \in InitSessionIds :
        Handle(Message("initialize", n_msgs + 1, session_id, "", NoParameters), FALSE)
    /\ app_messages = <<>>
    /\ app_submits = 0
    /\ d_messages = <<>>
    /\ d_requests = <<>>
    /\ d_sends = <<>>
    /\ a_calls = 0
    /\ a_last = NoChatOutcome
    /\ a_reached = <<>>
    /\ t_inflight = {}
    /\ t_done = <<>>
    /\ t_issued = 0
    /\ k_websocket = FALSE
    /\ k_session_id = "none"
    /\ k_tools = {}
    /\ k_counter = 0
    /\ k_ops = 0
    /\ k_waiting = {}
    /\ k_wire = <<>>
    /\ k_inbox = <<>>
    /\ k_returns = <<>>
    /\ m_position = 0
    /\ m_hasMarker = FALSE
    /\ m_loading = FALSE
    /\ m_requests = <<>>
    /\ m_clicks = 0
    /\ z_location = 0
    /\ z_floats = 0
    /\ z_analysis = 0
    /\ z_loading = FALSE
    /\ z_requests = <<>>
    /\ z_events = 0

ToolsList ==
    Handle(Message("tools/list", n_msgs + 1, "none", "", NoParameters), FALSE)

ToolsCall ==
    \E tool_name \in CallToolNames, session_id \in CallSessionIds, io_fails \in BOOLEAN :
        \E parameters \in CallParameters(tool_name) :
            Handle(Message("tools/call", n_msgs + 1, session_id, tool_name, parameters),
                   io_fails)

\* the key/value pairs a context/update carries in its data
ContextPairs ==
    [NoParameters EXCEPT !["region"] = StrVal(<<"a","r","a","b","i","a","n"," ","s","e","a">>)]

ContextUpdate ==
    \E session_id \in CallSessionIds :
        Handle(Message("context/update", n_msgs + 1, session_id, "", ContextPairs), FALSE)

OtherMessage ==
    Handle(Message("error", n_msgs + 1, "none", "", NoParameters), FALSE)

\* MCPFloatChatClient.disconnect: the client of an initialized session
\* closes its websocket.  The server has no code that runs on a closed
\* connection, so its state stays as it is.
Disconnect ==
    \E session_id \in DOMAIN sessions \ disconnected :
        /\ disconnected' = disconnected \cup {session_id}
        /\ UNCHANGED <<sessions, n_msgs, next_uuid, req, out, exec,
                       db_vars, v_vars, q_vars, r_vars, c_vars, t_vars, k_vars, m_vars, z_vars>>

Next ==
    \/ Initialize
    \/ ToolsList
    \/ ToolsCall
    \/ ContextUpdate
    \/ OtherMessage
    \/ Disconnect

Init ==
    /\ sessions = EmptyMap
    /\ n_msgs = 0
    /\ next_uuid = 0
    /\ req = NoMessage
    /\ out = NoResponse
    /\ exec = NoExec
    /\ disconnected = {}
    /\ r_pc = "off"
    /\ r_response = <<>>
    /\ r_answer = NoAnswer
    /\ table_rows = ServerTableRows
    /\ db_log = <<>>
    /\ open_conns = 0
    /\ v_pc = "off"
    /\ v_query = <<>>
    /\ v_ret = FALSE
    /\ v_warning = "none"
    /\ q_pc = "off"
    /\ q_calls = 0
    /\ q_last = NoOutcome
    /\ app_messages = <<>>
    /\ app_submits = 0
    /\ d_messages = <<>>
    /\ d_requests = <<>>
    /\ d_sends = <<>>
    /\ a_calls = 0
    /\ a_last = NoChatOutcome
    /\ a_reached = <<>>
    /\ t_inflight = {}
    /\ t_done = <<>>
    /\ t_issued = 0
    /\ k_websocket = FALSE
    /\ k_session_id = "none"
    /\ k_tools = {}
    /\ k_counter = 0
    /\ k_ops = 0
    /\ k_waiting = {}
    /\ k_wire = <<>>
    /\ k_inbox = <<>>
    /\ k_returns = <<>>
    /\ m_position = 0
    /\ m_hasMarker = FALSE
    /\ m_loading = FALSE
    /\ m_requests = <<>>
    /\ m_clicks = 0
    /\ z_location = 0
    /\ z_floats = 0
    /\ z_analysis = 0
    /\ z_loading = FALSE
    /\ z_requests = <<>>
    /\ z_events = 0

Spec == Init /\ [][Next]_vars

\* The server handles every message that arrives and every disconnect takes
\* place: no step that can be taken is postponed forever.
SpecLive == Init /\ [][Next]_vars /\ WF_vars(Next)

(***************************************************************************)
(* Chat front ends and the input validation of POST /chat.                 *)
(***************************************************************************)
MaxSends == 2
MaxAsks == 2

\* String.prototype.trim(): leading and trailing whitespace removed
trim(text) == StripRight(SubSeq(text, SkipWs(text, 1), Len(text)))

\* {role, content}
ChatMessage(role, content) == [role |-> role, content |-> content]

\* ChatBox.submit with App's onSend (appendMessage('user', text)): the
\* messages afterwards.  No request is made on this path.
submit(input, messages) ==
    IF trim(input) = <<>> THEN messages
    ELSE Append(messages, ChatMessage("user", input))

\* a request of the Dashboard chat
ChatRequest(text, state) == [text |-> text, state |-> state]

\* Dashboard ChatInput onSend up to its await: the user message is appended
\* and the request issued, unless the trimmed text is empty
onSend(text, messages, requests) ==
    IF trim(text) = <<>>
    THEN [messages |-> messages, requests |-> requests]
    ELSE [messages |-> Append(messages, ChatMessage("user", text)),
          requests |-> Append(requests, ChatRequest(text, "inflight"))]

NoAnswerText == <<"No answer.">>
FailedText == <<"Failed to get answer.">>

\* Mutant: a failed request appends nothing.
OnSettledSilentFailure(settled, response) ==
    IF settled = "rejected" THEN <<>>
    ELSE <<ChatMessage("system", IF response # <<>> THEN response ELSE NoAnswerText)>>

\* the rest of onSend, after the await: the system messages appended when
\* the request settled (fetch and res.json() resolved with data.response, or
\* one of them rejected)
onSettled(settled, response) ==
    IF settled = "rejected"
    THEN <<ChatMessage("system", FailedText)>>
    ELSE <<ChatMessage("system", IF response # <<>> THEN response ELSE NoAnswerText)>>

\* len(v) > 1000
MaxQueryLen == 1000

\* Mutant: validate_text without the test of the stripped text.
ValidateTextLengthOnly(v) ==
    IF Len(v) > MaxQueryLen
    THEN ChatOutcome(v, "raise", <<>>, "Query too long")
    ELSE ChatOutcome(v, "return", strip(v), "")

\* QueryInput.validate_text
validate_text(v) ==
    IF Len(v) > MaxQueryLen
    THEN ChatOutcome(v, "raise", <<>>, "Query too long")
    ELSE IF strip(v) = <<>>
    THEN ChatOutcome(v, "raise", <<>>, "Query cannot be empty")
    ELSE ChatOutcome(v, "return", strip(v), "")

\* the texts typed into the chats
LongBlank == [i \in 1..(MaxQueryLen + 1) |-> " "]
LongQuery == [i \in 1..(MaxQueryLen + 1) |-> "a"]
ChatTexts ==
    { <<>>, <<" ">>, <<" ", "\t", "\n">>, <<"h", "i">>, <<" ", "h", "i", "\n">> }
\* the bodies posted to the API: also texts longer than the validation allows
PostedTexts == ChatTexts \cup {LongBlank, LongQuery}

\* data.response of the API's answers; <<>> is an absent or empty one
ChatResponses == { <<>>, <<"3", " ", "f", "l", "o", "a", "t", "s">> }

InitChat ==
    /\ r_pc = "off"
    /\ r_response = <<>>
    /\ r_answer = NoAnswer
    /\ v_pc = "off"
    /\ v_query = <<>>
    /\ v_ret = FALSE
    /\ v_warning = "none"
    /\ q_pc = "off"
    /\ q_calls = 0
    /\ q_last = NoOutcome
    /\ table_rows = ServerTableRows
    /\ db_log = <<>>
    /\ open_conns = 0
    /\ sessions = EmptyMap
    /\ n_msgs = 0
    /\ next_uuid = 0
    /\ req = NoMessage
    /\ out = NoResponse
    /\ exec = NoExec
    /\ disconnected = {}
    /\ app_messages = <<>>
    /\ app_submits = 0
    /\ d_messages = <<>>
    /\ d_requests = <<>>
    /\ d_sends = <<>>
    /\ a_calls = 0
    /\ a_last = NoChatOutcome
    /\ a_reached = <<>>
    /\ t_inflight = {}
    /\ t_done = <<>>
    /\ t_issued = 0
    /\ k_websocket = FALSE
    /\ k_session_id = "none"
    /\ k_tools = {}
    /\ k_counter = 0
    /\ k_ops = 0
    /\ k_waiting = {}
    /\ k_wire = <<>>
    /\ k_inbox = <<>>
    /\ k_returns = <<>>
    /\ m_position = 0
    /\ m_hasMarker = FALSE
    /\ m_loading = FALSE
    /\ m_requests = <<>>
    /\ m_clicks = 0
    /\ z_location = 0
    /\ z_floats = 0
    /\ z_analysis = 0
    /\ z_loading = FALSE
    /\ z_requests = <<>>
    /\ z_events = 0

\* ChatBox.submit
Submit ==
    \E input \in ChatTexts :
        /\ app_submits < MaxSends
        /\ app_messages' = submit(input, app_messages)
        /\ app_submits' = app_submits + 1
        /\ UNCHANGED <<d_messages, d_requests, d_sends, a_calls, a_last, a_reached,
                       v_vars, q_vars, db_vars, s_vars, r_vars, t_vars, k_vars, m_vars, z_vars>>

\* Dashboard ChatInput onSend, up to its await
Send ==
    \E text \in ChatTexts :
        /\ Len(d_sends) < MaxSends
        /\ d_messages' = onSend(text, d_messages, d_requests).messages
        /\ d_requests' = onSend(text, d_messages, d_requests).requests
        /\ d_sends' = Append(d_sends, text)
        /\ UNCHANGED <<app_messages, app_submits, a_calls, a_last, a_reached,
                       v_vars, q_vars, db_vars, s_vars, r_vars, t_vars, k_vars, m_vars, z_vars>>

\* a request in flight settles and onSend resumes after its await
Settle ==
    \E i \in 1..Len(d_requests), settled \in {"resolved", "rejected"},
       response \in ChatResponses :
        /\ d_requests[i].state = "inflight"
        /\ d_messages' = d_messages \o onSettled(settled, response)
        /\ d_requests' = [d_requests EXCEPT ![i].state = settled]
        /\ UNCHANGED <<app_messages, app_submits, d_sends, a_calls, a_last, a_reached,
                       v_vars, q_vars, db_vars, s_vars, r_vars, t_vars, k_vars, m_vars, z_vars>>

\* chat_query: POST /chat with a body {"text": text}; the handler runs
\* run_rag_query(rag_chain, query.text) when QueryInput accepts the body
ChatQuery ==
    \E text \in PostedTexts :
        /\ a_calls < MaxAsks
        /\ a_last' = validate_text(text)
        /\ a_reached' = IF a_last'.kind = "return"
                        THEN Append(a_reached, a_last'.text) ELSE a_reached
        /\ a_calls' = a_calls + 1
        /\ UNCHANGED <<app_messages, app_submits, d_messages, d_requests, d_sends,
                       v_vars, q_vars, db_vars, s_vars, r_vars, t_vars, k_vars, m_vars, z_vars>>

NextChat ==
    \/ Submit
    \/ Send
    \/ Settle
    \/ ChatQuery

SpecChat == InitChat /\ [][NextChat]_vars

(***************************************************************************)
(* Calls in flight together.  handle_message is a coroutine: a tools/call  *)
(* runs up to `await tool.execute(...)`, other messages are handled while  *)
(* the tool runs, and the call resumes when the tool returns or raises.    *)
(* Between two awaits a coroutine runs alone (one event loop thread).      *)
(***************************************************************************)
ConcToolNames == {"get_float_metadata", "export_data"}

\* a call suspended at `await tool.execute(parameters, context)`
Suspended(message, context) == [context |-> context, message |-> message]

\* the entry of the completion log
Completed(message, session_known, raised) ==
    [id |-> message.id, session_id |-> message.session_id,
     session_known |-> session_known, raised |-> raised]

\* _handle_initialize has no await: the message is handled in one step
ConcInitialize ==
    \E session_id \in InitSessionIds :
        /\ t_issued < MaxMsgs
        /\ LET message == Message("initialize", t_issued + 1, session_id, "", NoParameters)
               e == handle_message(message, sessions, next_uuid, table_rows, FALSE)
           IN  /\ sessions' = e.sessions
               /\ out' = e.out
               /\ req' = message
               /\ next_uuid' = IF e.generated THEN next_uuid + 1 ELSE next_uuid
        /\ t_issued' = t_issued + 1
        /\ UNCHANGED <<t_inflight, t_done, n_msgs, exec, disconnected,
                       v_vars, q_vars, db_vars, r_vars, c_vars, k_vars, m_vars, z_vars>>

\* _handle_tool_call up to its await: the tool is looked up and the
\* session's context read
CallStart ==
    \E tool_name \in ConcToolNames, session_id \in CallSessionIds :
        /\ t_issued < MaxMsgs
        /\ LET message == Message("tools/call", t_issued + 1, session_id, tool_name,
                                  NoParameters)
           IN  /\ t_inflight' = t_inflight \cup
                     {Suspended(message, ContextOf(sessions, session_id))}
               /\ req' = message
        /\ t_issued' = t_issued + 1
        /\ UNCHANGED <<t_done, sessions, n_msgs, next_uuid, out, exec, disconnected,
                       v_vars, q_vars, db_vars, r_vars, c_vars, k_vars, m_vars, z_vars>>

\* the tool of a suspended call returns or raises and _handle_tool_call
\* runs to its end
CallComplete ==
    \E call \in t_inflight, io_fails \in BOOLEAN :
        LET r == execute(call.message.tool_name, call.message.parameters,
                         call.context, table_rows, io_fails)
            e == ToolCallEffect(call.message, sessions, call.context, r)
        IN  /\ sessions' = e.sessions
            /\ out' = e.out
            /\ exec' = e.exec
            /\ db_log' = db_log \o e.exec.db
            /\ t_inflight' = t_inflight \ {call}
            /\ t_done' = Append(t_done, Completed(call.message,
                                     call.message.session_id \in DOMAIN sessions,
                                     r.kind = "raise"))
            /\ UNCHANGED <<t_issued, n_msgs, next_uuid, req, disconnected,
                           table_rows, open_conns, v_vars, q_vars, r_vars, c_vars, k_vars, m_vars, z_vars>>

NextConc ==
    \/ ConcInitialize
    \/ CallStart
    \/ CallComplete

InitConc ==
    /\ sessions = EmptyMap
    /\ n_msgs = 0
    /\ next_uuid = 0
    /\ req = NoMessage
    /\ out = NoResponse
    /\ exec = NoExec
    /\ disconnected = {}
    /\ r_pc = "off"
    /\ r_response = <<>>
    /\ r_answer = NoAnswer
    /\ table_rows = ServerTableRows
    /\ db_log = <<>>
    /\ open_conns = 0
    /\ v_pc = "off"
    /\ v_query = <<>>
    /\ v_ret = FALSE
    /\ v_warning = "none"
    /\ q_pc = "off"
    /\ q_calls = 0
    /\ q_last = NoOutcome
    /\ app_messages = <<>>
    /\ app_submits = 0
    /\ d_messages = <<>>
    /\ d_requests = <<>>
    /\ d_sends = <<>>
    /\ a_calls = 0
    /\ a_last = NoChatOutcome
    /\ a_reached = <<>>
    /\ t_inflight = {}
    /\ t_done = <<>>
    /\ t_issued = 0
    /\ k_websocket = FALSE
    /\ k_session_id = "none"
    /\ k_tools = {}
    /\ k_counter = 0
    /\ k_ops = 0
    /\ k_waiting = {}
    /\ k_wire = <<>>
    /\ k_inbox = <<>>
    /\ k_returns = <<>>
    /\ m_position = 0
    /\ m_hasMarker = FALSE
    /\ m_loading = FALSE
    /\ m_requests = <<>>
    /\ m_clicks = 0
    /\ z_location = 0
    /\ z_floats = 0
    /\ z_analysis = 0
    /\ z_loading = FALSE
    /\ z_requests = <<>>
    /\ z_events = 0

SpecConc == InitConc /\ [][NextConc]_vars

(***************************************************************************)
(* MCPFloatChatClient against the server.  Message ids are the values of   *)
(* message_id_counter.                                                     *)
(***************************************************************************)
MaxOps == 4

ClientToolNames == {"get_float_metadata", "nonexistent_tool"}

\* a client coroutine suspended in _send_message at websocket.recv()
Waiting(op, id, tool_name) == [tool_name |-> tool_name, id |-> id, op |-> op]

\* what an operation of the client did: returned or raised, for the request
\* `id` (0: nothing was sent), having consumed the response `response_id`
\* (0: none)
ClientOutcome(op, id, tool_name, kind, ok, response_id) ==
    [kind |-> kind, tool_name |-> tool_name, ok |-> ok, id |-> id, op |-> op,
     response_id |-> response_id]

\* the names a tools/list response carries
ToolNamesOf(response) == { response.specs[i].name : i \in 1..Len(response.specs) }

\* the rest of connect, discover_tools and call_tool after _send_message
\* returned `response`: the value returned (ok) or the exception raised
Resume(w, response) ==
    IF w.op = "connect"
    THEN ClientOutcome(w.op, w.id, w.tool_name, "return",
                       response.type = "initialize", response.id)
    ELSE IF w.op = "discover_tools"
    THEN ClientOutcome(w.op, w.id, w.tool_name, "return",
                       response.type = "tools/list", response.id)
    ELSE ClientOutcome(w.op, w.id, w.tool_name,
                       IF response.type = "tools/call" THEN "return" ELSE "raise",
                       response.type = "tools/call", response.id)

\* Mutant: call_tool without the test of the discovered tools.
CallToolRefusedNever(tool_name, client_tools) == FALSE

\* call_tool: `if tool_name not in self.tools: raise ValueError(...)`
CallToolRefused(tool_name, client_tools) == tool_name \notin client_tools

\* connect (of a client that has no connection), up to the await of the
\* response; websockets.connect may fail
Connect ==
    \E refused \in BOOLEAN :
        /\ ~k_websocket
        /\ k_ops < MaxOps
        /\ k_ops' = k_ops + 1
        /\ IF refused
           THEN /\ k_returns' = Append(k_returns,
                                   ClientOutcome("connect", 0, "", "return", FALSE, 0))
                /\ UNCHANGED <<k_websocket, k_counter, k_wire, k_waiting, m_vars, z_vars>>
           ELSE /\ k_websocket' = TRUE
                /\ k_counter' = k_counter + 1
                /\ k_wire' = Append(k_wire, Message("initialize", k_counter + 1, "none",
                                                    "", NoParameters))
                /\ k_waiting' = k_waiting \cup {Waiting("connect", k_counter + 1, "")}
                /\ UNCHANGED k_returns
        /\ UNCHANGED <<k_session_id, k_tools, k_inbox,
                       v_vars, q_vars, db_vars, s_vars, r_vars, c_vars, t_vars, m_vars, z_vars>>

\* discover_tools, up to the await of the response; without a websocket
\* _send_message raises and discover_tools returns []
DiscoverTools ==
    /\ k_ops < MaxOps
    /\ k_ops' = k_ops + 1
    /\ k_counter' = k_counter + 1
    /\ IF ~k_websocket
       THEN /\ k_returns' = Append(k_returns,
                   ClientOutcome("discover_tools", 0, "", "return", FALSE, 0))
            /\ UNCHANGED <<k_wire, k_waiting, m_vars, z_vars>>
       ELSE /\ k_wire' = Append(k_wire, Message("tools/list", k_counter + 1, "none",
                                                "", NoParameters))
            /\ k_waiting' = k_waiting \cup {Waiting("discover_tools", k_counter + 1, "")}
            /\ UNCHANGED k_returns
    /\ UNCHANGED <<k_websocket, k_session_id, k_tools, k_inbox,
                   v_vars, q_vars, db_vars, s_vars, r_vars, c_vars, t_vars, m_vars, z_vars>>

\* call_tool, up to the await of the response
CallTool ==
    \E tool_name \in ClientToolNames :
        /\ k_ops < MaxOps
        /\ k_ops' = k_ops + 1
        /\ IF CallToolRefused(tool_name, k_tools)
           THEN /\ k_returns' = Append(k_returns,
                       ClientOutcome("call_tool", 0, tool_name, "raise", FALSE, 0))
                /\ UNCHANGED <<k_counter, k_wire, k_waiting, m_vars, z_vars>>
           ELSE IF ~k_websocket
           THEN /\ k_counter' = k_counter + 1
                /\ k_returns' = Append(k_returns,
                       ClientOutcome("call_tool", 0, tool_name, "raise", FALSE, 0))
                /\ UNCHANGED <<k_wire, k_waiting, m_vars, z_vars>>
           ELSE /\ k_counter' = k_counter + 1
                /\ k_wire' = Append(k_wire, Message("tools/call", k_counter + 1,
                                          k_session_id, tool_name, NoParameters))
                /\ k_waiting' = k_waiting \cup
                                   {Waiting("call_tool", k_counter + 1, tool_name)}
                /\ UNCHANGED k_returns
        /\ UNCHANGED <<k_websocket, k_session_id, k_tools, k_inbox,
                       v_vars, q_vars, db_vars, s_vars, r_vars, c_vars, t_vars, m_vars, z_vars>>

\* the server handles the next message of the connection and sends its
\* response
ServerReply ==
    \E io_fails \in BOOLEAN :
        /\ k_wire # <<>>
        /\ LET message == Head(k_wire)
               e == handle_message(message, sessions, next_uuid, table_rows, io_fails)
           IN  /\ sessions' = e.sessions
               /\ out' = e.out
               /\ exec' = e.exec
               /\ next_uuid' = IF e.generated THEN next_uuid + 1 ELSE next_uuid
               /\ db_log' = db_log \o e.exec.db
               /\ req' = message
               /\ k_inbox' = Append(k_inbox, e.out)
        /\ k_wire' = Tail(k_wire)
        /\ n_msgs' = n_msgs + 1
        /\ UNCHANGED <<k_websocket, k_session_id, k_tools, k_counter, k_ops,
                       k_waiting, k_returns, disconnected, table_rows, open_conns,
                       v_vars, q_vars, r_vars, c_vars, t_vars, m_vars, z_vars>>

\* websocket.recv() returns the next response to a coroutine waiting for
\* one, and the operation runs to its end
Receive ==
    \E w \in k_waiting :
        /\ k_inbox # <<>>
        /\ LET response == Head(k_inbox) IN
            /\ k_returns' = Append(k_returns, Resume(w, response))
            /\ k_session_id' = IF w.op = "connect" /\ response.type = "initialize"
                               THEN response.session_id ELSE k_session_id
            /\ k_tools' = IF w.op = "discover_tools" /\ response.type = "tools/list"
                          THEN ToolNamesOf(response) ELSE k_tools
        /\ k_inbox' = Tail(k_inbox)
        /\ k_waiting' = k_waiting \ {w}
        /\ UNCHANGED <<k_websocket, k_counter, k_ops, k_wire,
                       v_vars, q_vars, db_vars, s_vars, r_vars, c_vars, t_vars, m_vars, z_vars>>

\* the caller gives up an operation that waits for its response (the task
\* awaiting _send_message is cancelled); the request stays sent
Abandon ==
    \E w \in k_waiting :
        /\ k_waiting' = k_waiting \ {w}
        /\ UNCHANGED <<k_websocket, k_session_id, k_tools, k_counter, k_ops, k_wire,
                       k_inbox, k_returns,
                       v_vars, q_vars, db_vars, s_vars, r_vars, c_vars, t_vars, m_vars, z_vars>>

NextClient ==
    \/ Connect
    \/ DiscoverTools
    \/ CallTool
    \/ ServerReply
    \/ Receive
    \/ Abandon

InitClient ==
    /\ sessions = EmptyMap
    /\ n_msgs = 0
    /\ next_uuid = 0
    /\ req = NoMessage
    /\ out = NoResponse
    /\ exec = NoExec
    /\ disconnected = {}
    /\ r_pc = "off"
    /\ r_response = <<>>
    /\ r_answer = NoAnswer
    /\ table_rows = ServerTableRows
    /\ db_log = <<>>
    /\ open_conns = 0
    /\ v_pc = "off"
    /\ v_query = <<>>
    /\ v_ret = FALSE
    /\ v_warning = "none"
    /\ q_pc = "off"
    /\ q_calls = 0
    /\ q_last = NoOutcome
    /\ app_messages = <<>>
    /\ app_submits = 0
    /\ d_messages = <<>>
    /\ d_requests = <<>>
    /\ d_sends = <<>>
    /\ a_calls = 0
    /\ a_last = NoChatOutcome
    /\ a_reached = <<>>
    /\ t_inflight = {}
    /\ t_done = <<>>
    /\ t_issued = 0
    /\ k_websocket = FALSE
    /\ k_session_id = "none"
    /\ k_tools = {}
    /\ k_counter = 0
    /\ k_ops = 0
    /\ k_waiting = {}
    /\ k_wire = <<>>
    /\ k_inbox = <<>>
    /\ k_returns = <<>>
    /\ m_position = 0
    /\ m_hasMarker = FALSE
    /\ m_loading = FALSE
    /\ m_requests = <<>>
    /\ m_clicks = 0
    /\ z_location = 0
    /\ z_floats = 0
    /\ z_analysis = 0
    /\ z_loading = FALSE
    /\ z_requests = <<>>
    /\ z_events = 0

SpecClient == InitClient /\ [][NextClient]_vars

(***************************************************************************)
(* MapView inside App: the marker, the fetch button and fetchNearest.      *)
(* Positions are numbered; 0 is the initial one.                           *)
(***************************************************************************)
MaxClicks == 4

MapPositions == {1, 2}

NearestFailedText == <<"Failed to fetch nearest float">>

\* JSON.stringify(data) of the response for a position
NearestText(position) == <<"nearest float of", ToString(position)>>

\* a postNearestFloat request
NearestRequest(position, state) == [state |-> state, position |-> position]

\* the button's `disabled={!hasMarker || loading}`
ButtonDisabled(hasMarker, loading) == ~hasMarker \/ loading

\* fetchNearest up to its await: nothing without a marker, otherwise
\* loading is set and the request issued for the current position
fetchNearest(hasMarker, loading, position, requests) ==
    IF ~hasMarker
    THEN [requests |-> requests, loading |-> loading]
    ELSE [requests |-> Append(requests, NearestRequest(position, "inflight")),
          loading |-> TRUE]

\* Mutant: setLoading(false) at the end of the try block instead of in a
\* finally clause.
NearestSettledNoFinally(request, settled, loading) ==
    IF settled = "resolved"
    THEN [loading |-> FALSE,
          appended |-> <<ChatMessage("system", NearestText(request.position))>>]
    ELSE [loading |-> loading,
          appended |-> <<ChatMessage("system", NearestFailedText)>>]

\* the rest of fetchNearest, after the await: the message appended through
\* onAppendMessage and the loading flag
NearestSettled(request, settled, loading) ==
    IF settled = "resolved"
    THEN [loading |-> FALSE,
          appended |-> <<ChatMessage("system", NearestText(request.position))>>]
    ELSE [loading |-> FALSE,
          appended |-> <<ChatMessage("system", NearestFailedText)>>]

\* a click on the map: ClickableMarker's onSet
ClickMap ==
    \E pos \in MapPositions :
        /\ m_clicks < MaxClicks
        /\ m_clicks' = m_clicks + 1
        /\ m_position' = pos
        /\ m_hasMarker' = TRUE
        /\ UNCHANGED <<m_loading, m_requests,
                       v_vars, q_vars, db_vars, s_vars, r_vars, c_vars, t_vars, k_vars, z_vars>>

\* a click on the button; a disabled button delivers no click
ClickFetch ==
    /\ m_clicks < MaxClicks
    /\ ~ButtonDisabled(m_hasMarker, m_loading)
    /\ m_clicks' = m_clicks + 1
    /\ m_loading' = fetchNearest(m_hasMarker, m_loading, m_position, m_requests).loading
    /\ m_requests' = fetchNearest(m_hasMarker, m_loading, m_position, m_requests).requests
    /\ UNCHANGED <<m_position, m_hasMarker,
                   v_vars, q_vars, db_vars, s_vars, r_vars, c_vars, t_vars, k_vars, z_vars>>

\* a request in flight settles and fetchNearest resumes after its await
SettleNearest ==
    \E i \in 1..Len(m_requests), settled \in {"resolved", "rejected"} :
        /\ m_requests[i].state = "inflight"
        /\ m_requests' = [m_requests EXCEPT ![i].state = settled]
        /\ m_loading' = NearestSettled(m_requests[i], settled, m_loading).loading
        /\ app_messages' = app_messages \o
                              NearestSettled(m_requests[i], settled, m_loading).appended
        /\ UNCHANGED <<m_position, m_hasMarker, m_clicks,
                       app_submits, d_messages, d_requests, d_sends, a_calls, a_last,
                       a_reached,
                       v_vars, q_vars, db_vars, s_vars, r_vars, t_vars, k_vars, z_vars>>

\* Submit is ChatBox.submit in the left panel of the same App
NextMap ==
    \/ ClickMap
    \/ ClickFetch
    \/ SettleNearest
    \/ Submit

InitMap ==
    /\ sessions = EmptyMap
    /\ n_msgs = 0
    /\ next_uuid = 0
    /\ req = NoMessage
    /\ out = NoResponse
    /\ exec = NoExec
    /\ disconnected = {}
    /\ r_pc = "off"
    /\ r_response = <<>>
    /\ r_answer = NoAnswer
    /\ table_rows = ServerTableRows
    /\ db_log = <<>>
    /\ open_conns = 0
    /\ v_pc = "off"
    /\ v_query = <<>>
    /\ v_ret = FALSE
    /\ v_warning = "none"
    /\ q_pc = "off"
    /\ q_calls = 0
    /\ q_last = NoOutcome
    /\ app_messages = <<>>
    /\ app_submits = 0
    /\ d_messages = <<>>
    /\ d_requests = <<>>
    /\ d_sends = <<>>
    /\ a_calls = 0
    /\ a_last = NoChatOutcome
    /\ a_reached = <<>>
    /\ t_inflight = {}
    /\ t_done = <<>>
    /\ t_issued = 0
    /\ k_websocket = FALSE
    /\ k_session_id = "none"
    /\ k_tools = {}
    /\ k_counter = 0
    /\ k_ops = 0
    /\ k_waiting = {}
    /\ k_wire = <<>>
    /\ k_inbox = <<>>
    /\ k_returns = <<>>
    /\ m_position = 0
    /\ m_hasMarker = FALSE
    /\ m_loading = FALSE
    /\ m_requests = <<>>
    /\ m_clicks = 0
    /\ z_location = 0
    /\ z_floats = 0
    /\ z_analysis = 0
    /\ z_loading = FALSE
    /\ z_requests = <<>>
    /\ z_events = 0

SpecMap == InitMap /\ [][NextMap]_vars

(***************************************************************************)
(* AdvancedVisualizations: the location prop, the two fetches and the      *)
(* floats shown.  Locations are numbered, 0 is no location; the floats and *)
(* the analysis of a location are named by the location.                   *)
(***************************************************************************)
MaxEvents == 3

VizLocations == {1, 2}

\* a request of the component
VizRequest(kind, location, state) ==
    [kind |-> kind, state |-> state, location |-> location]

\* fetchNearestFloats / fetchComparativeAnalysis up to the await: nothing
\* without a location, otherwise loading is set and the request issued for
\* the location of this render
fetchStart(kind, location, loading, requests) ==
    IF location = 0
    THEN [requests |-> requests, loading |-> loading]
    ELSE [requests |-> Append(requests, VizRequest(kind, location, "inflight")),
          loading |-> TRUE]

\* the rest of the two functions, after the await: setFloats (and
\* setAnalysis) with the data of the response, nothing on failure, and
\* setLoading(false) in both cases.  has_floats: the response carries
\* data.floats
fetchSettled(request, settled, has_floats, floats, analysis) ==
    IF settled = "rejected"
    THEN [loading |-> FALSE, floats |-> floats, analysis |-> analysis]
    ELSE [loading |-> FALSE,
          floats |-> IF has_floats THEN request.location ELSE 0,
          analysis |-> IF request.kind = "comparative_analysis"
                       THEN (IF has_floats THEN request.location ELSE 0)
                       ELSE analysis]

\* the parent passes another location; useEffect([location]) runs
\* fetchNearestFloats
ChangeLocation ==
    \E location \in VizLocations \ {z_location} :
        /\ z_events < MaxEvents
        /\ z_events' = z_events + 1
        /\ z_location' = location
        /\ z_loading' = fetchStart("get_nearest_floats", location, z_loading,
                                   z_requests).loading
        /\ z_requests' = fetchStart("get_nearest_floats", location, z_loading,
                                    z_requests).requests
        /\ UNCHANGED <<z_floats, z_analysis,
                       v_vars, q_vars, db_vars, s_vars, r_vars, c_vars, t_vars, k_vars,
                       m_vars>>

\* a click on the analysis button (disabled={loading})
ClickAnalysis ==
    /\ z_events < MaxEvents
    /\ ~z_loading
    /\ z_events' = z_events + 1
    /\ z_loading' = fetchStart("comparative_analysis", z_location, z_loading,
                               z_requests).loading
    /\ z_requests' = fetchStart("comparative_analysis", z_location, z_loading,
                                z_requests).requests
    /\ UNCHANGED <<z_location, z_floats, z_analysis,
                   v_vars, q_vars, db_vars, s_vars, r_vars, c_vars, t_vars, k_vars,
                   m_vars>>

\* a request in flight settles and its function resumes after the await
SettleViz ==
    \E i \in 1..Len(z_requests), settled \in {"resolved", "rejected"},
       has_floats \in BOOLEAN :
        /\ z_requests[i].state = "inflight"
        /\ z_requests' = [z_requests EXCEPT ![i].state = settled]
        /\ z_floats' = fetchSettled(z_requests[i], settled, has_floats,
                                    z_floats, z_analysis).floats
        /\ z_analysis' = fetchSettled(z_requests[i], settled, has_floats,
                                      z_floats, z_analysis).analysis
        /\ z_loading' = fetchSettled(z_requests[i], settled, has_floats,
                                     z_floats, z_analysis).loading
        /\ UNCHANGED <<z_location, z_events,
                       v_vars, q_vars, db_vars, s_vars, r_vars, c_vars, t_vars, k_vars,
                       m_vars>>

NextViz ==
    \/ ChangeLocation
    \/ ClickAnalysis
    \/ SettleViz

InitViz ==
    /\ sessions = EmptyMap
    /\ n_msgs = 0
    /\ next_uuid = 0
    /\ req = NoMessage
    /\ out = NoResponse
    /\ exec = NoExec
    /\ disconnected = {}
    /\ r_pc = "off"
    /\ r_response = <<>>
    /\ r_answer = NoAnswer
    /\ table_rows = ServerTableRows
    /\ db_log = <<>>
    /\ open_conns = 0
    /\ v_pc = "off"
    /\ v_query = <<>>
    /\ v_ret = FALSE
    /\ v_warning = "none"
    /\ q_pc = "off"
    /\ q_calls = 0
    /\ q_last = NoOutcome
    /\ app_messages = <<>>
    /\ app_submits = 0
    /\ d_messages = <<>>
    /\ d_requests = <<>>
    /\ d_sends = <<>>
    /\ a_calls = 0
    /\ a_last = NoChatOutcome
    /\ a_reached = <<>>
    /\ t_inflight = {}
    /\ t_done = <<>>
    /\ t_issued = 0
    /\ k_websocket = FALSE
    /\ k_session_id = "none"
    /\ k_tools = {}
    /\ k_counter = 0
    /\ k_ops = 0
    /\ k_waiting = {}
    /\ k_wire = <<>>
    /\ k_inbox = <<>>
    /\ k_returns = <<>>
    /\ m_position = 0
    /\ m_hasMarker = FALSE
    /\ m_loading = FALSE
    /\ m_requests = <<>>
    /\ m_clicks = 0
    /\ z_location = 0
    /\ z_floats = 0
    /\ z_analysis = 0
    /\ z_loading = FALSE
    /\ z_requests = <<>>
    /\ z_events = 0

SpecViz == InitViz /\ [][NextViz]_vars

(***************************************************************************)
(* Notions the validator claims are stated in.                             *)
(***************************************************************************)
HasKeywordSubstring(s) ==
    \E k \in 1..Len(dangerous_keywords) : \E i \in 1..Len(s) :
        KeywordAt(dangerous_keywords[k], s, i)

HasKeywordToken(s) ==
    \E k \in 1..Len(dangerous_keywords) : \E i \in 1..Len(s) :
        WholeTokenAt(dangerous_keywords[k], s, i)

\* s names one of the tables, in any letter casing
ReferencesTable(s, tables) ==
    \E t \in 1..Len(tables) : Contains(upper(tables[t]), upper(s))

\* the allowed tables the specification names: argo_floats, argo_profiles
SpecTables == SubSeq(allowed_tables, 1, 2)

(***************************************************************************)
(* Claims about the validator (checked under SpecValidator).               *)
(***************************************************************************)
\* C2: every query that references an allowed table (argo_floats,
\* argo_profiles) and contains no denylisted keyword is admitted.
C2_AdmitsCleanQuery ==
    (/\ v_pc = "done"
     /\ ReferencesTable(v_query, SpecTables)
     /\ ~HasKeywordSubstring(v_query))
    => v_ret = TRUE

\* C3: every query that contains a denylisted keyword as a whole token, in
\* any letter casing and with any surrounding whitespace, is rejected.
C3_KeywordTokenRejected ==
    (v_pc = "done" /\ HasKeywordToken(v_query)) => v_ret = FALSE

\* a mixed-case query with a whole-token keyword and an allowed table was
\* validated and rejected
C3_Witness ==
    /\ v_pc = "done"
    /\ HasKeywordToken(v_query)
    /\ ReferencesTable(v_query, allowed_tables)
    /\ v_query # upper(v_query)
    /\ v_query # lower(v_query)
    /\ v_ret = FALSE
    /\ v_warning = "dangerous"

\* C4: a query that references an allowed table and has a denylisted keyword
\* only inside longer identifiers is not rejected for a dangerous keyword.
C4_WholeTokensOnly ==
    (/\ v_pc = "done"
     /\ ReferencesTable(v_query, allowed_tables)
     /\ ~HasKeywordToken(v_query))
    => v_warning # "dangerous"

\* C5: a query that references no allowed table is rejected.
C5_NoTableRejected ==
    (v_pc = "done" /\ ~ReferencesTable(v_query, allowed_tables)) => v_ret = FALSE

\* a query with no allowed table and no keyword at all was validated and
\* rejected for its missing table
C5_Witness ==
    /\ v_pc = "done"
    /\ ~ReferencesTable(v_query, allowed_tables)
    /\ ~HasKeywordSubstring(v_query)
    /\ v_ret = FALSE
    /\ v_warning = "no_table"

(***************************************************************************)
(* Claims about the executor (checked under SpecQuery).                    *)
(***************************************************************************)
\* the query is one the validator is meant to admit
Admissible(s) == ReferencesTable(s, SpecTables) /\ ~HasKeywordSubstring(s)

\* C6: for every admitted query the rows returned never exceed the
\* configured maximum (max_results), whatever limit the caller passes and
\* whatever LIMIT the query text holds.
C6_RowCapAtMostMax ==
    (q_last.kind = "return" /\ \A i \in 1..Len(db_log) : Admissible(db_log[i].sql_query))
    => q_last.rows <= max_results

\* C7: every query text handed to the backend carries a row-limit clause.
C7_EveryTextHasLimit ==
    \A i \in 1..Len(db_log) : HasLimitClause(db_log[i].sent)

(***************************************************************************)
(* Claims about the server and ArgoQueryTool.execute (checked under Spec). *)
(***************************************************************************)
\* the message handled last is a tools/call of the query tool whose
\* sql_query is a string the validator does not admit
UnadmittedQueryCall ==
    /\ req.type = "tools/call"
    /\ req.tool_name = "query_argo_database"
    /\ req.parameters["sql_query"].t = "string"
    /\ ~_validate_sql_query(req.parameters["sql_query"].s).ret

\* C1: execute raises for a query the validator does not admit and makes no
\* backend call for it; every query that reached the backend was admitted.
C1_UnadmittedNeverRuns ==
    /\ UnadmittedQueryCall =>
          /\ out.type = "error"
          /\ ContainsWords(<<"failed", "security", "validation">>, out.error)
          /\ exec.db = <<>>
    /\ \A i \in 1..Len(db_log) : _validate_sql_query(db_log[i].sql_query).ret

\* execute was called on a known session with DROP TABLE argo_floats, raised,
\* and the backend saw nothing
C1_Witness ==
    /\ UnadmittedQueryCall
    /\ req.parameters["sql_query"].s = SampleDrop
    /\ exec.executed
    /\ exec.session_known
    /\ out.type = "error"
    /\ db_log = <<>>

\* C8: a tools/call naming a tool that is not registered is answered with an
\* error containing "not found", executes no tool and leaves every session,
\* so also the history of the session it names, as it was.
C8_UnknownToolNotFound ==
    [][ (n_msgs' = n_msgs + 1 /\ req'.type = "tools/call" /\ req'.tool_name \notin tools)
        => /\ out'.type = "error"
           /\ out'.id = req'.id
           /\ ContainsWords(<<"not", "found">>, out'.error)
           /\ ~exec'.executed
           /\ sessions' = sessions ]_vars

\* an unknown tool was called on a session that already holds a tool call
C8_Witness ==
    /\ req.type = "tools/call"
    /\ req.tool_name \notin tools
    /\ out.type = "error"
    /\ req.session_id \in DOMAIN sessions
    /\ Len(sessions[req.session_id].tool_calls) > 0

\* C9: no tool is executed for a message whose session was never
\* initialized.
C9_NoToolBeforeInitialize ==
    exec.executed => exec.session_known

\* the parameters hold every required field of the tool's schema and every
\* field they hold has the type the schema gives it
ParamsMatchSchema(tool_name, parameters) ==
    /\ MissingField(tool_name, parameters) = ""
    /\ \A f \in DOMAIN input_schema(tool_name).properties :
          Has(parameters, f) => parameters[f].t = input_schema(tool_name).properties[f]

\* C10: a tools/call whose parameters do not match the tool's input schema
\* is answered with the error "invalid parameters" and the tool is not run.
C10_InvalidParametersRefused ==
    (/\ req.type = "tools/call"
     /\ req.tool_name \in tools
     /\ ~ParamsMatchSchema(req.tool_name, req.parameters))
    => /\ out.type = "error"
       /\ ContainsWords(<<"invalid", "parameters">>, out.error)
       /\ ~exec.executed

(***************************************************************************)
(* Claims about the sessions' histories and the dispatch (checked under    *)
(* Spec).                                                                  *)
(***************************************************************************)
\* the message handled last is a tools/call that was dispatched to a
\* registered tool on a session initialized before it
DispatchedOnSession ==
    /\ req.type = "tools/call"
    /\ req.tool_name \in tools
    /\ exec.session_known

\* the positions of the ToolCall records made for the message handled last
RecordsOfLast ==
    { i \in 1..Len(sessions[req.session_id].tool_calls) :
        sessions[req.session_id].tool_calls[i].timestamp = req.timestamp }

\* C11: a tools/call on an initialized session that is dispatched to a
\* registered tool leaves exactly one ToolCall record for it in the session's
\* history, also when the tool raised.
C11_OneRecordPerCall ==
    DispatchedOnSession => Cardinality(RecordsOfLast) = 1

\* the message handled last is a context/update on an initialized session
ContextUpdateOnSession ==
    /\ req.type = "context/update"
    /\ req.session_id \in DOMAIN sessions

\* C12: a context/update on an initialized session is answered with a
\* response that is not an error, and every key/value pair it carries is in
\* the session's context map afterwards (the map tools/call hands to tools).
C12_ContextUpdateAccepted ==
    ContextUpdateOnSession =>
        /\ out.type # "error"
        /\ \A f \in Fields :
              Has(req.parameters, f) =>
                  /\ f \in DOMAIN sessions[req.session_id].context
                  /\ sessions[req.session_id].context[f] = req.parameters[f]
                  /\ f \in DOMAIN ContextOf(sessions, req.session_id)

\* C13: two consecutive tools/list requests return the same tool
\* specifications, and handling a tools/list leaves every session (its
\* history and its context) as it was; the registry is the fixed set tools.
C13_ToolsListIdempotent ==
    [][ (n_msgs' = n_msgs + 1 /\ req'.type = "tools/list")
        => /\ sessions' = sessions
           /\ out'.type = "tools/list"
           /\ (req.type = "tools/list" => out'.specs = out.specs) ]_vars

\* a tools/list was answered with the specifications while a session holds
\* history
C13_Witness ==
    /\ req.type = "tools/list"
    /\ out.type = "tools/list"
    /\ Len(out.specs) = Len(tool_names)
    /\ \E s \in DOMAIN sessions : Len(sessions[s].tool_calls) > 0

\* the message handled last is one the claim lists as failing: an unknown
\* message type, an unknown tool, parameters that do not match the tool's
\* schema, or a tool that raised
FailedRequest ==
    \/ req.type \notin {"initialize", "tools/list", "tools/call", "context/update"}
    \/ /\ req.type = "tools/call"
       /\ \/ req.tool_name \notin tools
          \/ ~ParamsMatchSchema(req.tool_name, req.parameters)
          \/ exec.raised

\* C14: every message handled has one response, which carries the message's
\* id; a failing request is answered with an error message whose error text
\* is set.
C14_OneResponsePerRequest ==
    n_msgs > 0 =>
        /\ out.type \in {"initialize", "tools/list", "tools/call", "error"}
        /\ out.id = req.id
        /\ FailedRequest => (out.type = "error" /\ out.error # <<>>)

\* h is a prefix of g
IsPrefix(h, g) == Len(h) <= Len(g) /\ SubSeq(g, 1, Len(h)) = h

\* C15: a session's ToolCall history is append-only: no step, a repeated
\* initialize with the same session_id included, removes or moves a record
\* appended earlier.
C15_HistoryAppendOnly ==
    [][ \A s \in DOMAIN sessions :
           s \in DOMAIN sessions' =>
               IsPrefix(sessions[s].tool_calls, sessions'[s].tool_calls) ]_vars

\* the tool names a tools/list response advertises
SpecNames(response) == { response.specs[i].name : i \in 1..Len(response.specs) }

SessionIds ==
    (InitSessionIds \ {"none"}) \cup { _generate_session_id(n) : n \in 0..(MaxMsgs - 1) }

\* C17: after a client disconnects, its session is eventually no longer in
\* the server's sessions map.
C17_SessionDestroyedOnDisconnect ==
    \A s \in SessionIds : (s \in disconnected) ~> (s \notin DOMAIN sessions)

(***************************************************************************)
(* Claims about the RAG query path (checked under SpecRag).                *)
(***************************************************************************)
\* the text holds a fenced sql block: an opening fence marked sql (in any
\* casing) and, after it, a closing fence
HasFencedSqlBlock(text) ==
    \E i \in 1..Len(text) : \E j \in (i + Len(SqlFence))..Len(text) :
        OpensAt(text, i) /\ ClosesAt(text, j)

\* C18 as stated: for a response without a fenced sql block the extracted
\* query is none, the call returns, and the answer is non-empty and equal
\* to the full response text.
C18_NoBlockProseAnswer ==
    (r_pc = "done" /\ ~HasFencedSqlBlock(r_response)) =>
        /\ ~r_answer.sql.found
        /\ r_answer.kind = "return"
        /\ r_answer.text = r_response
        /\ r_answer.text # <<>>

\* C18 amended: for a non-empty response without a fenced sql block the
\* extracted query is none, the call returns, and the answer is non-empty
\* and equal to the full response text.
C18_NoBlockProseAnswerNonEmpty ==
    (r_pc = "done" /\ r_response # <<>> /\ ~HasFencedSqlBlock(r_response)) =>
        /\ ~r_answer.sql.found
        /\ r_answer.kind = "return"
        /\ r_answer.text = r_response
        /\ r_answer.text # <<>>

\* a response that opens a sql fence and never closes it was answered with
\* its full text and no query
C18_Witness ==
    /\ r_pc = "done"
    /\ \E i \in 1..Len(r_response) : OpensAt(r_response, i)
    /\ ~HasFencedSqlBlock(r_response)
    /\ ~r_answer.sql.found
    /\ r_answer.text = r_response

(***************************************************************************)
(* Claims about a backend failure (checked under SpecQuery): the rest of   *)
(* ArgoQueryTool.execute and of _handle_tool_call, applied to what the     *)
(* last call of _execute_query did.                                        *)
(***************************************************************************)
\* the query of the last call of _execute_query
LastQuery == db_log[Len(db_log)].sql_query

\* the caller's session as _handle_initialize created it
CallerSessions ==
    [s \in {"s1"} |-> [context |-> EmptyMap, created_at |-> 0, tool_calls |-> <<>>]]

\* the tools/call request that made the last call of _execute_query
LastQueryCall ==
    Message("tools/call", q_calls, "s1", "query_argo_database",
            [NoParameters EXCEPT !["sql_query"] = StrVal(LastQuery)])

\* what the server does with that request
LastQueryEffect ==
    ToolCallEffect(LastQueryCall, CallerSessions, EmptyMap,
                   QueryResult(LastQuery, q_last))

RejectedGeneratedQuery ==
    /\ r_pc = "done"
    /\ r_answer.sql.found
    /\ ~_validate_sql_query(r_answer.sql.text).ret

Blank(text) == \A i \in 1..Len(text) : text[i] \in WhitespaceChars

CompletionOrder(s) ==
    LET done == SelectSeq(t_done, LAMBDA c : c.session_id = s /\ c.session_known)
    IN  [i \in 1..Len(done) |-> done[i].id]

\* the ids of the calls recorded in the history of session s
HistoryOrder(s) ==
    [i \in 1..Len(sessions[s].tool_calls) |-> sessions[s].tool_calls[i].timestamp]

C23_ResponseMatchesRequest ==
    \A i \in 1..Len(k_returns) :
        k_returns[i].response_id # 0 => k_returns[i].response_id = k_returns[i].id

\* discover_tools has filled the client's tool set
Discovered ==
    \E i \in 1..Len(k_returns) :
        k_returns[i].op = "discover_tools" /\ k_returns[i].ok

\* the operation of the client that ended last
LastReturn == k_returns[Len(k_returns)]

C24_OneAttemptNoRetry ==
    q_calls > 0 =>
        /\ Len(QueryResult(LastQuery, q_last).db) = 1
        /\ QueryResult(LastQuery, q_last).db[1].sent = q_last.sent
        /\ q_last.opened = 1
        /\ Len(db_log) = q_calls
        /\ q_last.kind = "raise" =>
               /\ ~QueryResult(LastQuery, q_last).result.success
               /\ QueryResult(LastQuery, q_last).result.error = BackendError

\* the backend failed in the one call made and was asked once
C24_Witness ==
    /\ q_calls = 1
    /\ q_last.kind = "raise"
    /\ Len(db_log) = 1
    /\ QueryResult(LastQuery, q_last).result.error = BackendError

(***************************************************************************)
(* Claims about the isolation of sessions (checked under Spec).            *)
(***************************************************************************)
\* C25: a tools/call for one session never changes the history or context
\* of any other session (nor the set of sessions), and the context handed
\* to the tool is the context of the session named in the call, the empty
\* one when that session does not exist.
C25_SessionsIsolated ==
    [][ (req'.type = "tools/call" /\ n_msgs' = n_msgs + 1) =>
          /\ DOMAIN sessions' = DOMAIN sessions
          /\ \A s \in DOMAIN sessions :
                s # req'.session_id => sessions'[s] = sessions[s]
          /\ \A s \in DOMAIN sessions : sessions'[s].context = sessions[s].context
          /\ exec'.executed =>
                exec'.context = IF req'.session_id \in DOMAIN sessions
                                THEN sessions[req'.session_id].context
                                ELSE EmptyMap ]_vars

\* two sessions exist; a call for "s1" was recorded in its history and the
\* history of the other session is still empty
C25_Witness ==
    /\ req.type = "tools/call"
    /\ req.session_id = "s1"
    /\ Cardinality(DOMAIN sessions) = 2
    /\ "s1" \in DOMAIN sessions
    /\ Len(sessions["s1"].tool_calls) = 1
    /\ \A s \in DOMAIN sessions \ {"s1"} : sessions[s].tool_calls = <<>>

\* C26: _execute_query closes the connection it opened, whether it returns
\* rows or raises: after every call the number of open connections is what
\* it was before the call.
C26_ConnectionClosedOnEveryPath ==
    [][ q_calls' = q_calls + 1 =>
          /\ q_last'.closed = q_last'.opened
          /\ open_conns' = open_conns ]_vars

\* a call raised and no connection is open
C26_Witness ==
    /\ q_calls > 0
    /\ q_last.kind = "raise"
    /\ q_last.opened = 1
    /\ open_conns = 0

\* the messages of a role, in order
MessagesOf(role) == SelectSeq(d_messages, LAMBDA m : m.role = role)
\* the requests in a state, in order
RequestsIn(state) == SelectSeq(d_requests, LAMBDA r : r.state = state)
\* the non-blank texts sent, in order
NonBlankSends == SelectSeq(d_sends, LAMBDA t : ~Blank(t))

\* C28: in the Dashboard chat every non-blank text sent has exactly one
\* user message and one request, in the order of the sends; every settled
\* request has exactly one system message (an answer, or the failure text
\* for a failed request); messages are never removed or reordered, also
\* with several requests in flight.
C28_OneMessagePerSendAndSettle ==
    /\ [](/\ Len(MessagesOf("user")) = Len(NonBlankSends)
          /\ \A i \in 1..Len(NonBlankSends) :
                /\ MessagesOf("user")[i].content = NonBlankSends[i]
                /\ d_requests[i].text = NonBlankSends[i]
          /\ Len(d_requests) = Len(NonBlankSends)
          /\ Len(MessagesOf("system")) =
                Len(RequestsIn("resolved")) + Len(RequestsIn("rejected"))
          /\ Len(SelectSeq(d_messages, LAMBDA m : m = ChatMessage("system", FailedText)))
                = Len(RequestsIn("rejected")))
    /\ [][ /\ Len(d_messages') >= Len(d_messages)
           /\ SubSeq(d_messages', 1, Len(d_messages)) = d_messages
           /\ Len(d_requests') > Len(d_requests) =>
                 d_messages' = Append(d_messages,
                                      ChatMessage("user", d_requests'[Len(d_requests')].text))
         ]_vars

\* two requests were in flight together; the second settled first, with an
\* answer, and the first failed
C28_Witness ==
    /\ Len(d_requests) = 2
    /\ d_requests[1].state = "rejected"
    /\ d_requests[2].state = "resolved"
    /\ Len(d_messages) = 4
    /\ d_messages[1].role = "user" /\ d_messages[2].role = "user"
    /\ d_messages[3].role = "system" /\ d_messages[3].content # FailedText
    /\ d_messages[4] = ChatMessage("system", FailedText)

(***************************************************************************)
(* Claims about MapView (checked under SpecMap).                           *)
(***************************************************************************)
\* the requests of MapView in a state
NearestIn(state) == SelectSeq(m_requests, LAMBDA r : r.state = state)

\* the messages MapView appended
NearestMessages == SelectSeq(app_messages, LAMBDA m : m.role = "system")

\* C29: fetchNearest issues no request until a marker has been placed;
\* loading is true exactly while a request is in flight; every settled
\* request has exactly one message, the failure text for a failed one.
C29_LoadingTracksRequest ==
    /\ [](/\ m_loading <=> (NearestIn("inflight") # <<>>)
          /\ m_requests # <<>> => m_hasMarker
          /\ Len(NearestMessages) =
                Len(NearestIn("resolved")) + Len(NearestIn("rejected"))
          /\ Len(SelectSeq(NearestMessages, LAMBDA m : m.content = NearestFailedText))
                = Len(NearestIn("rejected")))
    /\ [][ Len(m_requests') > Len(m_requests) =>
              /\ m_hasMarker
              /\ m_requests'[Len(m_requests')] = NearestRequest(m_position, "inflight")
         ]_vars

\* a request failed, its failure text was appended and loading went back
\* to false; a second request is in flight and loading is true again
C29_Witness ==
    /\ Len(m_requests) = 2
    /\ m_requests[1].state = "rejected"
    /\ m_requests[2].state = "inflight"
    /\ m_loading
    /\ NearestMessages = <<ChatMessage("system", NearestFailedText)>>

(***************************************************************************)
(* Claims about AdvancedVisualizations (checked under SpecViz).            *)
(***************************************************************************)
\* C30: the floats shown are only ever replaced by floats of the location
\* selected at that time (or by the empty list): the response to a request
\* made for an earlier location never overwrites them.
C30_NoStaleFloats ==
    [][ z_floats' # z_floats => z_floats' \in {0, z_location} ]_vars

====
